---- MODULE Spec2Model ----
(***************************************************************************)
(* Event-driven CQRS backbone of the citizen-reporting platform:           *)
(*   - the Redis-streams event bus adapter (publish, consumer groups,      *)
(*     read / handle / acknowledge loop),                                  *)
(*   - the standalone command service and the projection fan-out worker,   *)
(*   - the operations service (case router, officer status updates),       *)
(*   - the workflow service (SLA jobs, notifications, SLA sweeper).        *)
(***************************************************************************)
EXTENDS Integers, Sequences, FiniteSets, TLC

(***************************************************************************)
(* Bounds of the model                                                     *)
(***************************************************************************)
MaxReports == 1      \* reports ever created by the command service
MaxEvents == 4       \* stream entries in the runs without faults
MaxStream == 2       \* stream entries in the runs with faults
NumReplicas == 2     \* read replicas held by the projection worker
MaxCitizenReports == 1  \* reports ever created by citizens
MaxWfEvents == 3     \* stream entries in the runs of the case workflow
MaxOpsEvents == 3    \* stream entries in the runs of the operations service
MaxInflight == 1     \* officer requests in progress at the same time
MaxVoteInflight == 2 \* upvote requests in progress at the same time
MaxCmdInflight == 2  \* requests of the command service in progress at the same time
MaxRaceInflight == 2 \* officer requests in progress at the same time, runs with concurrent officers
MaxTicks == 2        \* firings of the SLA ticker
MaxHappyEvents == 2  \* stream entries in the runs without failures of bus and stores
MaxSweepEvents == 2  \* stream entries in the runs of the SLA sweeper
MaxRouterEvents == 3 \* stream entries in the runs with redelivery to the case router
MaxRedeliveryEvents == 3  \* stream entries in the runs with redelivery to the workflow consumer

Replicas == 1..NumReplicas

(***************************************************************************)
(* Program constants                                                       *)
(***************************************************************************)
StreamName == "report-events"
ConsumerGroup == "projection-service"
BatchCount == 50

\* internal/events/events.go (vocabulary of the standalone command service)
ReportCreated == "ReportCreated"
ReportUpdated == "ReportUpdated"
ReportDeleted == "ReportDeleted"

\* internal/domain/report.go
StatusPending == "pending"
StatusResolved == "resolved"
ValidCategories == {"kebersihan", "kesehatan"}
ValidStatuses == {StatusPending, StatusResolved}
IsValidCategory(category) == category \in ValidCategories
IsValidStatus(status) == status \in ValidStatuses

\* request values tried by the clients of the command service; "" is an
\* omitted field, "zzz" a value the validation rejects
ReqTitles == {"", "t2"}
ReqCategories == ValidCategories \cup {"", "zzz"}
ReqStatuses == ValidStatuses \cup {"", "zzz"}

\* the second events package (redis_streams.go, lines 176-182)
EvReportCreated == "report.created"
EvReportStatusUpdated == "report.status.updated"
EvReportEscalated == "report.escalated"
EvReportUpvoted == "report.upvoted"

OpsGroup == "operations-service"
WorkflowGroup == "workflow-service"
ReportingGroup == "reporting-service"
Groups == {ConsumerGroup, OpsGroup, WorkflowGroup, ReportingGroup}

\* internal/auth: hardcoded users and the routing table
Users ==
    [citizen1 |-> [Role |-> "citizen", Agency |-> ""],
     citizen2 |-> [Role |-> "citizen", Agency |-> ""],
     citizen3 |-> [Role |-> "citizen", Agency |-> ""],
     officer1 |-> [Role |-> "officer", Agency |-> "AGENCY_INFRA"],
     officer2 |-> [Role |-> "officer", Agency |-> "AGENCY_HEALTH"],
     officer3 |-> [Role |-> "officer", Agency |-> "AGENCY_SAFETY"]]
CategoryToAgency ==
    [infrastruktur |-> "AGENCY_INFRA", kesehatan |-> "AGENCY_HEALTH",
     keamanan |-> "AGENCY_SAFETY", kebersihan |-> "AGENCY_INFRA",
     kriminalitas |-> "AGENCY_SAFETY", lainnya |-> "AGENCY_INFRA"]
\* variant: no default agency
GetAgencyForCategory_noDefault(category) ==
    IF category \in DOMAIN CategoryToAgency THEN CategoryToAgency[category]
    ELSE ""

GetAgencyForCategory(category) ==
    IF category \in DOMAIN CategoryToAgency THEN CategoryToAgency[category]
    ELSE "AGENCY_INFRA"

SweepPeriod == 30          \* seconds between two firings of the SLA ticker
DefaultSLADuration == 60   \* seconds
MinSLADuration == 10       \* seconds

\* request values tried by citizens, officers and the SLA administrator
Citizens == {"citizen1"}
Voters == {"citizen1", "citizen2"}
VoteSlots == 1..MaxVoteInflight
Officers == {"officer1", "officer2"}
ReqContents == {"", "c1"}
ReqVisibilities == {"", "ANONYMOUS", "PRIVATE"}
ReqCitizenCategories == {"", "kesehatan"}
ReqCaseStatuses == {"IN_PROGRESS", "RESOLVED", "zzz"}
ReqDurations == {9, 10}
Slots == 1..MaxInflight
CmdSlots == 1..MaxCmdInflight
RaceSlots == 1..MaxRaceInflight

VARIABLES
    stream,        \* the Redis stream: sequence of event envelopes
    nextEventId,   \* source of fresh event ids (uuid.New in NewEvent)
    lastDelivered, \* per group: last stream entry delivered by XREADGROUP ">"
    pending,       \* per group: delivered, not yet acknowledged entries (PEL)
    batch,         \* per group: entries read by the consumer and not yet handled
    lastIter,      \* outcome of the Consume iteration done by the last step, if it was one
    cmdReports,    \* command store, table reports
    nextReportId,  \* source of fresh report ids (uuid.New in NewReport)
    creq,          \* command service: the requests in progress
    replica,       \* per replica: reports_read_model, report_statistics, processed_events
    up,            \* per replica: reachable and healthy
    worker,        \* projection worker: position of its Consume call, state of its context
    reports,       \* reporting service, write store: table reports
    myReportsView,     \* reporting service, read store
    publicReportsView, \* reporting service, read store
    votes,         \* reporting service, write store: table votes
    vreq,          \* reporting service: the upvote requests in progress
    lastReply,     \* the HTTP response the reporting service sent in the last step, if any
    cases,         \* operations service: table cases
    caseHistory,   \* operations service: table case_status_history, in insertion order
    req,           \* operations service: the update-status requests in progress
    lastResp,      \* the HTTP response sent by the last step, if it sent one
    slaDuration,   \* workflow service: the configured SLA duration, seconds
    slaJobs,       \* workflow service: table sla_jobs
    projection,    \* workflow service: table report_status_projection
    notifications, \* workflow service: table notifications, in insertion order
    sweeper,       \* workflow service: position of checkSLABreaches
    now,           \* wall clock, seconds
    tickDue        \* the SLA ticker has fired and the sweeper has not yet taken the tick

vars == <<stream, nextEventId, lastDelivered, pending, batch, lastIter,
          cmdReports, nextReportId, creq, replica, up, worker,
          reports, myReportsView, publicReportsView, votes, vreq, lastReply,
          cases, caseHistory, req, lastResp, slaDuration, slaJobs, projection, notifications, sweeper,
          now, tickDue>>

busVars == <<stream, nextEventId, lastDelivered, pending, batch>>
cmdVars == <<cmdReports, nextReportId, creq>>
projVars == <<replica, up, worker>>
citizenVars == <<reports, myReportsView, publicReportsView, votes, vreq>>
opsVars == <<cases, caseHistory, req>>
wfVars == <<slaDuration, slaJobs, projection, notifications, sweeper>>
clockVars == <<now, tickDue>>
platformVars == <<citizenVars, opsVars, wfVars, clockVars>>

NoIter == [group |-> "", idx |-> 0, ok |-> {}, err |-> FALSE, ack |-> "none"]
NoResp == [sub |-> "", report |-> 0, status |-> "", code |-> 0]
NoReply == [op |-> "", sub |-> "", report |-> 0, code |-> 0]

\* a step that is neither a Consume iteration nor the end of a request
Quiet == lastIter' = NoIter /\ lastResp' = NoResp /\ lastReply' = NoReply

(***************************************************************************)
(* Event bus adapter                                                       *)
(***************************************************************************)
NewEvent(eventType, reportID, payload) ==
    [event_id |-> nextEventId, event_type |-> eventType,
     report_id |-> reportID, payload |-> payload]

\* XADD; pubOk = FALSE is a failed publish, which the callers only log
Publish(event, pubOk) ==
    IF pubOk
    THEN /\ stream' = Append(stream, event)
         /\ nextEventId' = nextEventId + 1
    ELSE UNCHANGED <<stream, nextEventId>>

Min(a, b) == IF a < b THEN a ELSE b

RECURSIVE SeqFromTo(_, _)
SeqFromTo(a, b) == IF a > b THEN <<>> ELSE <<a>> \o SeqFromTo(a + 1, b)

\* variant: the batch holds the newest entry first
XReadGroup_newestFirst(g) ==
    /\ batch[g] = <<>>
    /\ lastDelivered[g] < Len(stream)
    /\ LET hi == Min(Len(stream), lastDelivered[g] + BatchCount)
           new == [k \in 1..(hi - lastDelivered[g]) |-> hi - k + 1]
       IN /\ batch' = [batch EXCEPT ![g] = new]
          /\ pending' = [pending EXCEPT ![g] = @ \cup {new[k] : k \in 1..Len(new)}]
          /\ lastDelivered' = [lastDelivered EXCEPT ![g] = hi]
    /\ Quiet
    /\ UNCHANGED <<stream, nextEventId>>

\* XREADGROUP with id ">" : only entries never delivered to the group
XReadGroup(g) ==
    /\ batch[g] = <<>>
    /\ lastDelivered[g] < Len(stream)
    /\ LET hi == Min(Len(stream), lastDelivered[g] + BatchCount)
           new == SeqFromTo(lastDelivered[g] + 1, hi)
       IN /\ batch' = [batch EXCEPT ![g] = new]
          /\ pending' = [pending EXCEPT ![g] = @ \cup {new[k] : k \in 1..Len(new)}]
          /\ lastDelivered' = [lastDelivered EXCEPT ![g] = hi]
    /\ Quiet
    /\ UNCHANGED <<stream, nextEventId>>

\* variant: XACK is issued whatever the handler returned
AckOrSkip_ackAlways(g, i, ok, err, ackOk) ==
    /\ batch' = [batch EXCEPT ![g] = Tail(@)]
    /\ pending' = [pending EXCEPT ![g] = IF ackOk THEN @ \ {i} ELSE @]
    /\ lastIter' = [group |-> g, idx |-> i, ok |-> ok, err |-> err,
                    ack |-> IF ackOk THEN "acked" ELSE "failed"]
    /\ lastResp' = NoResp
    /\ lastReply' = NoReply
    /\ UNCHANGED <<stream, nextEventId, lastDelivered>>

\* lines 122-130 of Consume: handler error -> continue without XACK;
\* otherwise XACK, whose own error is only logged
AckOrSkip(g, i, ok, err, ackOk) ==
    /\ batch' = [batch EXCEPT ![g] = Tail(@)]
    /\ pending' = [pending EXCEPT ![g] = IF ~err /\ ackOk THEN @ \ {i} ELSE @]
    /\ lastIter' = [group |-> g, idx |-> i, ok |-> ok, err |-> err,
                    ack |-> IF err THEN "none" ELSE IF ackOk THEN "acked" ELSE "failed"]
    /\ lastResp' = NoResp
    /\ lastReply' = NoReply
    /\ UNCHANGED <<stream, nextEventId, lastDelivered>>

\* operator tooling re-appends the envelope of an existing entry
Replay(i) ==
    /\ i \in 1..Len(stream)
    /\ stream' = Append(stream, stream[i])
    /\ Quiet
    /\ UNCHANGED <<nextEventId, lastDelivered, pending, batch>>

(***************************************************************************)
(* Standalone command service (reporting-command)                          *)
(***************************************************************************)
RowsById(tbl, id) == {x \in tbl : x.id = id}

createReportHandler(title, category, pubOk) ==
    /\ title # ""
    /\ category # ""
    /\ IsValidCategory(category)
    /\ nextReportId <= MaxReports
    /\ LET report == [id |-> nextReportId, title |-> title,
                      category |-> category, status |-> StatusPending]
       IN /\ cmdReports' = cmdReports \cup {report}
          /\ nextReportId' = nextReportId + 1
          /\ Publish(NewEvent(ReportCreated, report.id, report), pubOk)
    /\ Quiet
    /\ UNCHANGED <<creq, lastDelivered, pending, batch, projVars, platformVars>>

updateReportHandler(id, title, category, status, pubOk) ==
    /\ status = "" \/ IsValidStatus(status)
    /\ category = "" \/ IsValidCategory(category)
    /\ RowsById(cmdReports, id) # {}
    /\ LET old == CHOOSE x \in cmdReports : x.id = id
           report == [id |-> id,
                      title |-> IF title # "" THEN title ELSE old.title,
                      category |-> IF category # "" THEN category ELSE old.category,
                      status |-> IF status # "" THEN status ELSE old.status]
       IN /\ cmdReports' = (cmdReports \ {old}) \cup {report}
          /\ Publish(NewEvent(ReportUpdated, id, report), pubOk)
    /\ Quiet
    /\ UNCHANGED <<nextReportId, creq, lastDelivered, pending, batch, projVars, platformVars>>

deleteReportHandler(id, pubOk) ==
    /\ RowsById(cmdReports, id) # {}
    /\ cmdReports' = {x \in cmdReports : x.id # id}
    /\ Publish(NewEvent(ReportDeleted, id, [id |-> id]), pubOk)
    /\ Quiet
    /\ UNCHANGED <<nextReportId, creq, lastDelivered, pending, batch, projVars, platformVars>>

(***************************************************************************)
(* Projection fan-out worker (reporting-projection)                        *)
(***************************************************************************)
\* where a pipeline run on an unhealthy replica fails: "check" the ledger
\* lookup, "begin" the start of the transaction, "write" the statements on
\* reports_read_model, "stats" the statements on report_statistics,
\* "ledger" the insert into processed_events, "commit" the commit
FailPoints == {"none", "check", "begin", "write", "stats", "ledger", "commit"}

Greatest(a, b) == IF a > b THEN a ELSE b

StatRow(stats, category, status) ==
    {s \in stats : s.category = category /\ s.status = status}

updateStatistics_noClamp(stats, category, status, operation) ==
    IF operation \in {"create", "increment"}
    THEN IF StatRow(stats, category, status) # {}
         THEN {IF s.category = category /\ s.status = status
               THEN [s EXCEPT !.count = @ + 1] ELSE s : s \in stats}
         ELSE stats \cup {[category |-> category, status |-> status, count |-> 1]}
    ELSE IF operation \in {"delete", "decrement"}
    THEN {IF s.category = category /\ s.status = status
          THEN [s EXCEPT !.count = @ - 1] ELSE s : s \in stats}
    ELSE stats

updateStatistics(stats, category, status, operation) ==
    IF operation \in {"create", "increment"}
    THEN IF StatRow(stats, category, status) # {}
         THEN {IF s.category = category /\ s.status = status
               THEN [s EXCEPT !.count = @ + 1] ELSE s : s \in stats}
         ELSE stats \cup {[category |-> category, status |-> status, count |-> 1]}
    ELSE IF operation \in {"delete", "decrement"}
    THEN {IF s.category = category /\ s.status = status
          THEN [s EXCEPT !.count = Greatest(@ - 1, 0)] ELSE s : s \in stats}
    ELSE stats

\* The handlers run inside the transaction tx = [rrm, stats, aborted].
\* A failed updateStatistics is only logged by the handler, but PostgreSQL
\* has then aborted the transaction (aborted): every later statement of the
\* transaction fails.
handleReportCreated(tx, event, failAt) ==
    LET p == event.payload IN
    IF failAt = "write"
    THEN [tx |-> [tx EXCEPT !.aborted = TRUE], err |-> TRUE]
    ELSE LET row == [id |-> p.id, title |-> p.title,
                     category |-> p.category, status |-> p.status]
             rrm1 == {x \in tx.rrm : x.id # p.id} \cup {row}
         IN IF failAt = "stats"
            THEN [tx |-> [tx EXCEPT !.rrm = rrm1, !.aborted = TRUE], err |-> FALSE]
            ELSE [tx |-> [tx EXCEPT !.rrm = rrm1,
                             !.stats = updateStatistics(@, p.category, p.status, "create")],
                  err |-> FALSE]

handleReportUpdated(tx, event, failAt) ==
    LET p == event.payload
        old == RowsById(tx.rrm, p.id)
        oldStatus == IF old = {} THEN "" ELSE (CHOOSE x \in old : TRUE).status
    IN
    IF failAt = "write"
    THEN [tx |-> [tx EXCEPT !.aborted = TRUE], err |-> TRUE]
    ELSE LET rrm1 == {IF x.id = p.id
                      THEN [id |-> x.id, title |-> p.title,
                            category |-> p.category, status |-> p.status]
                      ELSE x : x \in tx.rrm}
         IN IF oldStatus # "" /\ oldStatus # p.status
            THEN IF failAt = "stats"
                 THEN [tx |-> [tx EXCEPT !.rrm = rrm1, !.aborted = TRUE], err |-> FALSE]
                 ELSE [tx |-> [tx EXCEPT !.rrm = rrm1,
                                  !.stats = updateStatistics(
                                     updateStatistics(@, p.category, oldStatus, "decrement"),
                                     p.category, p.status, "increment")],
                       err |-> FALSE]
            ELSE [tx |-> [tx EXCEPT !.rrm = rrm1], err |-> FALSE]

handleReportDeleted(tx, event, failAt) ==
    LET p == event.payload
        old == RowsById(tx.rrm, p.id)
        category == IF old = {} THEN "" ELSE (CHOOSE x \in old : TRUE).category
        status == IF old = {} THEN "" ELSE (CHOOSE x \in old : TRUE).status
    IN
    IF failAt = "write"
    THEN [tx |-> [tx EXCEPT !.aborted = TRUE], err |-> TRUE]
    ELSE LET rrm1 == {x \in tx.rrm : x.id # p.id}
         IN IF category # ""
            THEN IF failAt = "stats"
                 THEN [tx |-> [tx EXCEPT !.rrm = rrm1, !.aborted = TRUE], err |-> FALSE]
                 ELSE [tx |-> [tx EXCEPT !.rrm = rrm1,
                                  !.stats = updateStatistics(@, category, status, "delete")],
                       err |-> FALSE]
            ELSE [tx |-> [tx EXCEPT !.rrm = rrm1], err |-> FALSE]

\* db = [rrm, stats, ledger, applied]: the tables reports_read_model,
\* report_statistics and processed_events of one replica; applied is a
\* history field, the events all of whose read-model and counter statements
\* are part of the committed state

\* the deferred tx.Rollback() of an unfinished transaction
Rollback_keepsWrites(db, tx) ==
    [db |-> [db EXCEPT !.rrm = tx.rrm, !.stats = tx.stats], err |-> TRUE]

Rollback(db, tx) == [db |-> db, err |-> TRUE]

\* variant: an event of an unknown type is recorded in the ledger
runTransaction_ledgerAll(db, event, failAt) ==
    IF failAt = "begin" THEN [db |-> db, err |-> TRUE]
    ELSE IF event.event_type \notin {ReportCreated, ReportUpdated, ReportDeleted}
    THEN [db |-> [db EXCEPT !.ledger = @ \cup {event.event_id}], err |-> FALSE]
    ELSE LET tx0 == [rrm |-> db.rrm, stats |-> db.stats, aborted |-> FALSE]
             h == IF event.event_type = ReportCreated
                  THEN handleReportCreated(tx0, event, failAt)
                  ELSE IF event.event_type = ReportUpdated
                  THEN handleReportUpdated(tx0, event, failAt)
                  ELSE handleReportDeleted(tx0, event, failAt)
         IN IF h.err THEN Rollback(db, h.tx)
            ELSE IF h.tx.aborted \/ failAt = "ledger" THEN Rollback(db, h.tx)
            ELSE IF failAt = "commit" THEN Rollback(db, h.tx)
            ELSE [db |-> [rrm |-> h.tx.rrm, stats |-> h.tx.stats,
                          ledger |-> db.ledger \cup {event.event_id},
                          applied |-> db.applied \cup {event.event_id}],
                  err |-> FALSE]

\* lines 451-489: the transaction of one pipeline run
runTransaction(db, event, failAt) ==
    IF failAt = "begin" THEN [db |-> db, err |-> TRUE]
    ELSE IF event.event_type \notin {ReportCreated, ReportUpdated, ReportDeleted}
    THEN [db |-> db, err |-> FALSE]
    ELSE LET tx0 == [rrm |-> db.rrm, stats |-> db.stats, aborted |-> FALSE]
             h == IF event.event_type = ReportCreated
                  THEN handleReportCreated(tx0, event, failAt)
                  ELSE IF event.event_type = ReportUpdated
                  THEN handleReportUpdated(tx0, event, failAt)
                  ELSE handleReportDeleted(tx0, event, failAt)
         IN IF h.err THEN Rollback(db, h.tx)
            ELSE IF h.tx.aborted \/ failAt = "ledger" THEN Rollback(db, h.tx)
            ELSE IF failAt = "commit" THEN Rollback(db, h.tx)
            ELSE [db |-> [rrm |-> h.tx.rrm, stats |-> h.tx.stats,
                          ledger |-> db.ledger \cup {event.event_id},
                          applied |-> db.applied \cup {event.event_id}],
                  err |-> FALSE]

processEventForDatabase_noCheck(db, event, failAt) ==
    IF failAt = "check" THEN [db |-> db, err |-> TRUE]
    ELSE runTransaction(db, event, failAt)

processEventForDatabase(db, event, failAt) ==
    IF failAt = "check" THEN [db |-> db, err |-> TRUE]
    ELSE IF event.event_id \in db.ledger THEN [db |-> db, err |-> FALSE]
    ELSE runTransaction(db, event, failAt)

\* handleEvent: one pipeline per replica; nil unless every replica failed
handleEvent_allMustSucceed(dbs, event, f) ==
    LET res == [r \in Replicas |-> processEventForDatabase(dbs[r], event, f[r])]
        errors == {r \in Replicas : res[r].err}
    IN [dbs |-> [r \in Replicas |-> res[r].db],
        errors |-> errors,
        err |-> ~(Cardinality(errors) < 1)]

handleEvent(dbs, event, f) ==
    LET res == [r \in Replicas |-> processEventForDatabase(dbs[r], event, f[r])]
        errors == {r \in Replicas : res[r].err}
    IN [dbs |-> [r \in Replicas |-> res[r].db],
        errors |-> errors,
        err |-> ~(Cardinality(errors) < Cardinality(Replicas))]

\* one iteration of the Consume loop of the projection worker
ProjConsumeOne(ackOutcomes) ==
    /\ batch[ConsumerGroup] # <<>>
    /\ LET i == Head(batch[ConsumerGroup]) IN
       \E d \in [{r \in Replicas : ~up[r]} -> FailPoints \ {"none"}] :
          LET f == [r \in Replicas |-> IF up[r] THEN "none" ELSE d[r]] IN
          \E h \in {handleEvent(replica, stream[i], f)}, ackOk \in ackOutcomes :
             /\ h.err => ackOk
             /\ replica' = h.dbs
             /\ AckOrSkip(ConsumerGroup, i, Replicas \ h.errors, h.err, ackOk)
    /\ UNCHANGED <<cmdVars, up, worker, platformVars>>

ReplicaDown(r) ==
    /\ up[r]
    /\ up' = [up EXCEPT ![r] = FALSE]
    /\ Quiet
    /\ UNCHANGED <<busVars, cmdVars, replica, worker, platformVars>>

ReplicaUp(r) ==
    /\ ~up[r]
    /\ up' = [up EXCEPT ![r] = TRUE]
    /\ Quiet
    /\ UNCHANGED <<busVars, cmdVars, replica, worker, platformVars>>

(***************************************************************************)
(* Specification of the command service, the bus and the projection worker *)
(***************************************************************************)
EmptyDb == [rrm |-> {}, stats |-> {}, ledger |-> {}, applied |-> {}]
InitBus ==
    /\ stream = <<>>
    /\ nextEventId = 1
    /\ lastDelivered = [g \in Groups |-> 0]
    /\ pending = [g \in Groups |-> {}]
    /\ batch = [g \in Groups |-> <<>>]
    /\ lastIter = NoIter

NoReport == [id |-> 0, title |-> "", category |-> "", status |-> ""]
IdleCmd == [pc |-> "idle", op |-> "", report |-> NoReport]

InitProj ==
    /\ cmdReports = {}
    /\ nextReportId = 1
    /\ creq = [s \in CmdSlots |-> IdleCmd]
    /\ worker = [pc |-> "loop", cancelled |-> FALSE, deliveredAtCancel |-> 0]
    /\ replica = [r \in Replicas |-> EmptyDb]
    /\ up = [r \in Replicas |-> TRUE]

IdleReq == [pc |-> "idle", sub |-> "", report |-> 0, status |-> "",
            oldStatus |-> "", ownerAgency |-> ""]
IdleVote == [pc |-> "idle", sub |-> "", report |-> 0, voteCount |-> 0]
IdleSweeper == [pc |-> "idle", breaches |-> {}, cur |-> 0, newLevel |-> 0]

InitPlatform ==
    /\ reports = {}
    /\ myReportsView = {}
    /\ publicReportsView = {}
    /\ votes = {}
    /\ vreq = [s \in VoteSlots |-> IdleVote]
    /\ lastReply = NoReply
    /\ cases = {}
    /\ caseHistory = <<>>
    /\ req = [s \in Slots \cup RaceSlots |-> IdleReq]
    /\ lastResp = NoResp
    /\ slaDuration = DefaultSLADuration
    /\ slaJobs = {}
    /\ projection = {}
    /\ notifications = <<>>
    /\ sweeper = IdleSweeper
    /\ now = 0
    /\ tickDue = FALSE

Init == InitBus /\ InitProj /\ InitPlatform

\* the requests of the clients, while the stream has room for their event;
\* rq = [titles, categories, statuses]: the request values they try
CreateReport(cap, rq) ==
    /\ Len(stream) < cap
    /\ \E title \in rq.titles, category \in rq.categories :
          createReportHandler(title, category, TRUE)

UpdateReport(cap, rq) ==
    /\ Len(stream) < cap
    /\ \E id \in 1..MaxReports, title \in rq.titles, category \in rq.categories,
          status \in rq.statuses :
          updateReportHandler(id, title, category, status, TRUE)

DeleteReport(cap) ==
    /\ Len(stream) < cap
    /\ \E id \in 1..MaxReports : deleteReportHandler(id, TRUE)

AllRequests == [titles |-> ReqTitles, categories |-> ReqCategories,
                statuses |-> ReqStatuses]
\* in the runs with faults the clients file reports under one category and
\* resolve them
FewRequests == [titles |-> {"t2"}, categories |-> {"kesehatan"},
                statuses |-> {StatusResolved}]

ProjRead == XReadGroup(ConsumerGroup) /\ UNCHANGED <<cmdVars, projVars, platformVars>>

OperatorReplay ==
    /\ Len(stream) < MaxStream
    /\ \E i \in 1..MaxStream : Replay(i)
    /\ UNCHANGED <<cmdVars, projVars, platformVars>>

ReplicaFails == \E r \in Replicas : ReplicaDown(r)

ReplicaRecovers == \E r \in Replicas : ReplicaUp(r)

Next ==
    \/ CreateReport(MaxStream, FewRequests)
    \/ UpdateReport(MaxStream, FewRequests)
    \/ DeleteReport(MaxStream)
    \/ ProjRead
    \/ ProjConsumeOne(BOOLEAN)
    \/ OperatorReplay
    \/ ReplicaFails
    \/ ReplicaRecovers

Spec == Init /\ [][Next]_vars

\* runs in which the bus and every replica stay reachable
NextCounters ==
    \/ CreateReport(MaxEvents, AllRequests)
    \/ UpdateReport(MaxEvents, AllRequests)
    \/ DeleteReport(MaxEvents)
    \/ ProjRead
    \/ ProjConsumeOne({TRUE})

SpecCounters == Init /\ [][NextCounters]_vars

\* the scheduling of the projection worker: its Consume loop keeps running,
\* and an unreachable replica becomes reachable again
FairSpec ==
    /\ Spec
    /\ WF_vars(ProjRead)
    /\ WF_vars(ProjConsumeOne(BOOLEAN))
    /\ \A r \in Replicas : WF_vars(ReplicaUp(r))

(***************************************************************************)
(* Reporting service, CQRS variant: citizens create reports                *)
(***************************************************************************)
\* the response of a reporting-service handler
Reply(op, sub, reportID, code) ==
    /\ lastReply' = [op |-> op, sub |-> sub, report |-> reportID, code |-> code]
    /\ lastIter' = NoIter
    /\ lastResp' = NoResp

\* variant: the visibility is stored as requested
storedVisibility_asRequested(visibilityReq) == visibilityReq

\* createReportHandler: the visibility that is stored
storedVisibility(visibilityReq) ==
    IF visibilityReq = "ANONYMOUS" THEN "ANONYMOUS" ELSE "PUBLIC"

\* variant: a failed publish fails the request
createStatus_needsPublish(content, writeOk, pubOk) ==
    IF content = "" THEN 400 ELSE IF ~writeOk \/ ~pubOk THEN 500 ELSE 201

\* createReportHandler: the status of the response
createStatus(content, writeOk, pubOk) ==
    IF content = "" THEN 400 ELSE IF ~writeOk THEN 500 ELSE 201

\* writeOk: the insert into reports (write store); myViewOk, publicViewOk: the
\* two inserts into the read store, whose failure is only logged or ignored;
\* a failed request leaves no trace of its uuid, so the id source stays
createReportHandlerCQRS(sub, content, visibilityReq, categoryReq, writeOk, myViewOk, publicViewOk, pubOk) ==
    /\ IF content = ""
       THEN /\ Reply("create", sub, 0, createStatus(content, writeOk, pubOk))
            /\ UNCHANGED <<reports, myReportsView, publicReportsView,
                           nextReportId, stream, nextEventId>>
       ELSE IF ~writeOk
       THEN /\ Reply("create", sub, 0, createStatus(content, writeOk, pubOk))
            /\ UNCHANGED <<reports, myReportsView, publicReportsView,
                           nextReportId, stream, nextEventId>>
       ELSE LET visibility == storedVisibility(visibilityReq)
                category == IF categoryReq # "" THEN categoryReq ELSE "lainnya"
                reportID == nextReportId
                payload == [report_id |-> reportID, reporter_user_id |-> sub,
                            visibility |-> visibility, content |-> content,
                            category |-> category, created_at |-> now]
            IN /\ reports' = reports \cup {payload}
               /\ myReportsView' =
                     IF myViewOk
                     THEN myReportsView \cup
                             {[report_id |-> reportID, reporter_user_id |-> sub,
                               content |-> content, category |-> category,
                               visibility |-> visibility, current_status |-> "RECEIVED",
                               vote_count |-> 0]}
                     ELSE myReportsView
               /\ publicReportsView' =
                     IF visibility = "PUBLIC" /\ publicViewOk
                     THEN publicReportsView \cup
                             {[report_id |-> reportID, content |-> content,
                               category |-> category, vote_count |-> 0]}
                     ELSE publicReportsView
               /\ nextReportId' = nextReportId + 1
               /\ Publish(NewEvent(EvReportCreated, reportID, payload), pubOk)
               /\ Reply("create", sub, reportID, createStatus(content, writeOk, pubOk))
    /\ UNCHANGED <<lastDelivered, pending, batch, cmdReports, creq, projVars, votes, vreq,
                   opsVars, wfVars, clockVars>>

\* the handler of startConsumer: other events are skipped; the UPDATE of
\* my_reports_view touches the rows of the report, and its failure is only
\* logged, the handler returning nil either way
startConsumerReporting(view, event, dbOk) ==
    IF event.event_type # EvReportStatusUpdated THEN view
    ELSE IF ~dbOk THEN view
    ELSE {IF x.report_id = event.payload.report_id
          THEN [x EXCEPT !.current_status = event.payload.new_status]
          ELSE x : x \in view}

ReportingConsumeOne(dbOutcomes, ackOutcomes) ==
    /\ batch[ReportingGroup] # <<>>
    /\ LET i == Head(batch[ReportingGroup]) IN
       \E dbOk \in dbOutcomes, ackOk \in ackOutcomes :
          /\ myReportsView' = startConsumerReporting(myReportsView, stream[i], dbOk)
          /\ AckOrSkip(ReportingGroup, i, {}, FALSE, ackOk)
    /\ UNCHANGED <<cmdVars, projVars, reports, publicReportsView, votes, vreq,
                   opsVars, wfVars, clockVars>>

(***************************************************************************)
(* Reporting service, CQRS variant: upvotes                                *)
(***************************************************************************)
ReportRows(rs, reportID) == {x \in rs : x.report_id = reportID}

VoteRows(vs, reportID) == {v \in vs : v.report_id = reportID}

\* variant: the visibility of the report is not checked
upvoteCheck_anyVisibility(rs, reportID, selOk) ==
    IF selOk /\ ReportRows(rs, reportID) = {} THEN 404 ELSE 0

\* upvoteReportHandler, the SELECT of the visibility and the two checks: the
\* status of the error response, 0 if the request goes on; selOk = FALSE is a
\* failure of the SELECT other than "no rows", which leaves visibility ""
upvoteCheck(rs, reportID, selOk) ==
    LET rows == ReportRows(rs, reportID)
        visibility == IF selOk /\ rows # {}
                      THEN (CHOOSE x \in rows : TRUE).visibility ELSE ""
    IN IF selOk /\ rows = {} THEN 404
       ELSE IF visibility # "PUBLIC" THEN 400
       ELSE 0

upvoteBegin(s, sub, reportID, selOk) ==
    /\ vreq[s].pc = "idle"
    /\ LET code == upvoteCheck(reports, reportID, selOk)
       IN IF code # 0
          THEN Reply("upvote", sub, reportID, code) /\ UNCHANGED vreq
          ELSE /\ vreq' = [vreq EXCEPT ![s] = [pc |-> "insert", sub |-> sub,
                                               report |-> reportID, voteCount |-> 0]]
               /\ Quiet
    /\ UNCHANGED <<busVars, cmdVars, projVars, reports, myReportsView,
                   publicReportsView, votes, opsVars, wfVars, clockVars>>

\* variant: the table has no unique key, every request inserts a row
insertVote_noUniqueKey(vs, reportID, sub, dbOk) ==
    IF ~dbOk THEN [votes |-> vs, err |-> TRUE]
    ELSE [votes |-> vs \cup {[id |-> Cardinality(vs) + 1, report_id |-> reportID,
                              voter_user_id |-> sub]},
          err |-> FALSE]

\* INSERT INTO votes ... ON CONFLICT DO NOTHING, under UNIQUE(report_id,
\* voter_user_id); id is the serial key, a number no other row has
insertVote(vs, reportID, sub, dbOk) ==
    IF ~dbOk THEN [votes |-> vs, err |-> TRUE]
    ELSE IF \E v \in vs : v.report_id = reportID /\ v.voter_user_id = sub
    THEN [votes |-> vs, err |-> FALSE]
    ELSE [votes |-> vs \cup {[id |-> Cardinality(vs) + 1, report_id |-> reportID,
                              voter_user_id |-> sub]},
          err |-> FALSE]

upvoteInsert(s, dbOk) ==
    /\ vreq[s].pc = "insert"
    /\ LET h == insertVote(votes, vreq[s].report, vreq[s].sub, dbOk)
       IN /\ votes' = h.votes
          /\ IF h.err
             THEN /\ Reply("upvote", vreq[s].sub, vreq[s].report, 500)
                  /\ vreq' = [vreq EXCEPT ![s] = IdleVote]
             ELSE /\ vreq' = [vreq EXCEPT ![s].pc = "count"]
                  /\ Quiet
    /\ UNCHANGED <<busVars, cmdVars, projVars, reports, myReportsView,
                   publicReportsView, opsVars, wfVars, clockVars>>

\* SELECT COUNT(*) FROM votes; its error is ignored and leaves voteCount 0
upvoteCount(s, dbOk) ==
    /\ vreq[s].pc = "count"
    /\ vreq' = [vreq EXCEPT ![s].pc = "updateMy",
                            ![s].voteCount =
                                IF dbOk THEN Cardinality(VoteRows(votes, vreq[s].report))
                                ELSE 0]
    /\ Quiet
    /\ UNCHANGED <<busVars, cmdVars, projVars, reports, myReportsView,
                   publicReportsView, votes, opsVars, wfVars, clockVars>>

\* UPDATE ... SET vote_count = $1 WHERE report_id = $2, on either view
setVoteCount(view, reportID, voteCount, dbOk) ==
    IF ~dbOk THEN view
    ELSE {IF x.report_id = reportID THEN [x EXCEPT !.vote_count = voteCount] ELSE x :
          x \in view}

upvoteUpdateMy(s, dbOk) ==
    /\ vreq[s].pc = "updateMy"
    /\ myReportsView' = setVoteCount(myReportsView, vreq[s].report,
                                     vreq[s].voteCount, dbOk)
    /\ vreq' = [vreq EXCEPT ![s].pc = "updatePublic"]
    /\ Quiet
    /\ UNCHANGED <<busVars, cmdVars, projVars, reports, publicReportsView, votes,
                   opsVars, wfVars, clockVars>>

upvoteUpdatePublic(s, dbOk) ==
    /\ vreq[s].pc = "updatePublic"
    /\ publicReportsView' = setVoteCount(publicReportsView, vreq[s].report,
                                         vreq[s].voteCount, dbOk)
    /\ vreq' = [vreq EXCEPT ![s].pc = "publish"]
    /\ Quiet
    /\ UNCHANGED <<busVars, cmdVars, projVars, reports, myReportsView, votes,
                   opsVars, wfVars, clockVars>>

\* the publish, whose failure is only logged, and the 200 response
upvotePublish(s, pubOk) ==
    /\ vreq[s].pc = "publish"
    /\ Publish(NewEvent(EvReportUpvoted, vreq[s].report,
                        [report_id |-> vreq[s].report, voter_user_id |-> vreq[s].sub,
                         created_at |-> now]), pubOk)
    /\ Reply("upvote", vreq[s].sub, vreq[s].report, 200)
    /\ vreq' = [vreq EXCEPT ![s] = IdleVote]
    /\ UNCHANGED <<lastDelivered, pending, batch, cmdVars, projVars, reports,
                   myReportsView, publicReportsView, votes, opsVars, wfVars, clockVars>>

(***************************************************************************)
(* Operations service: case router and officer status updates              *)
(***************************************************************************)
CaseRows(cs, reportID) == {c \in cs : c.report_id = reportID}

\* variant: the insert overwrites the status of an existing row
startConsumerOps_upsert(cs, event, dbOk) ==
    IF event.event_type # EvReportCreated THEN [cases |-> cs, err |-> FALSE]
    ELSE IF ~dbOk THEN [cases |-> cs, err |-> TRUE]
    ELSE LET p == event.payload
         IN [cases |-> {c \in cs : c.report_id # p.report_id}
                          \cup {[report_id |-> p.report_id,
                                  owner_agency |-> GetAgencyForCategory(p.category),
                                  status |-> "RECEIVED",
                                  content |-> p.content,
                                  reporter_user_id |-> p.reporter_user_id,
                                  visibility |-> p.visibility]},
             err |-> FALSE]

\* handler of the operations consumer; dbOk = FALSE is a failed insert
startConsumerOps(cs, event, dbOk) ==
    IF event.event_type # EvReportCreated THEN [cases |-> cs, err |-> FALSE]
    ELSE IF ~dbOk THEN [cases |-> cs, err |-> TRUE]
    ELSE LET p == event.payload
             ownerAgency == GetAgencyForCategory(p.category)
         IN [cases |-> IF CaseRows(cs, p.report_id) # {} THEN cs
                       ELSE cs \cup {[report_id |-> p.report_id,
                                      owner_agency |-> ownerAgency,
                                      status |-> "RECEIVED",
                                      content |-> p.content,
                                      reporter_user_id |-> p.reporter_user_id,
                                      visibility |-> p.visibility]},
             err |-> FALSE]

OpsConsumeOne(dbOutcomes, ackOutcomes) ==
    /\ batch[OpsGroup] # <<>>
    /\ LET i == Head(batch[OpsGroup]) IN
       \E dbOk \in dbOutcomes, ackOk \in ackOutcomes :
          LET h == startConsumerOps(cases, stream[i], dbOk) IN
          /\ cases' = h.cases
          /\ AckOrSkip(OpsGroup, i, {}, h.err, ackOk)
    /\ UNCHANGED <<cmdVars, projVars, citizenVars, caseHistory, req, wfVars, clockVars>>

\* variant: any status of the request is taken
validStatuses_any == {"RECEIVED", "IN_PROGRESS", "RESOLVED", "zzz"}

validStatuses == {"RECEIVED", "IN_PROGRESS", "RESOLVED"}

\* the agency check of updateStatusHandler
agencyAuthorized_any(ownerAgency, agency) == TRUE

agencyAuthorized(ownerAgency, agency) == ownerAgency = agency

Respond(sub, reportID, status, code) ==
    /\ lastResp' = [sub |-> sub, report |-> reportID, status |-> status, code |-> code]
    /\ lastIter' = NoIter
    /\ lastReply' = NoReply

\* updateStatusHandler up to the agency check; selOk = FALSE is a failure of
\* the SELECT other than "no rows", which leaves ownerAgency and oldStatus ""
updateStatusBegin(s, sub, reportID, status, selOk) ==
    /\ req[s].pc = "idle"
    /\ Users[sub].Role = "officer"
    /\ LET claims == [Sub |-> sub, Agency |-> Users[sub].Agency]
           rows == CaseRows(cases, reportID)
       IN IF status \notin validStatuses
          THEN Respond(sub, reportID, status, 400) /\ UNCHANGED req
          ELSE IF selOk /\ rows = {}
          THEN Respond(sub, reportID, status, 404) /\ UNCHANGED req
          ELSE LET ownerAgency == IF selOk THEN (CHOOSE c \in rows : TRUE).owner_agency ELSE ""
                   oldStatus == IF selOk THEN (CHOOSE c \in rows : TRUE).status ELSE ""
               IN IF ~agencyAuthorized(ownerAgency, claims.Agency)
                  THEN Respond(sub, reportID, status, 403) /\ UNCHANGED req
                  ELSE /\ req' = [req EXCEPT ![s] =
                                    [pc |-> "update", sub |-> sub, report |-> reportID,
                                     status |-> status, oldStatus |-> oldStatus,
                                     ownerAgency |-> ownerAgency]]
                       /\ Quiet
    /\ UNCHANGED <<busVars, cmdVars, projVars, citizenVars, cases, caseHistory,
                   wfVars, clockVars>>

\* UPDATE cases SET status ... WHERE report_id; dbOk = FALSE answers 500
updateStatusExec(s, dbOk) ==
    /\ req[s].pc = "update"
    /\ IF dbOk
       THEN /\ cases' = {IF c.report_id = req[s].report
                         THEN [c EXCEPT !.status = req[s].status] ELSE c : c \in cases}
            /\ req' = [req EXCEPT ![s].pc = "history"]
            /\ Quiet
       ELSE /\ Respond(req[s].sub, req[s].report, req[s].status, 500)
            /\ req' = [req EXCEPT ![s] = IdleReq]
            /\ UNCHANGED cases
    /\ UNCHANGED <<busVars, cmdVars, projVars, citizenVars, caseHistory,
                   wfVars, clockVars>>

\* INSERT INTO case_status_history, whose error is ignored
updateStatusHistory(s, dbOk) ==
    /\ req[s].pc = "history"
    /\ caseHistory' =
          IF dbOk
          THEN Append(caseHistory,
                      [report_id |-> req[s].report, old_status |-> req[s].oldStatus,
                       new_status |-> req[s].status, changed_by |-> req[s].sub])
          ELSE caseHistory
    /\ req' = [req EXCEPT ![s].pc = "publish"]
    /\ Quiet
    /\ UNCHANGED <<busVars, cmdVars, projVars, citizenVars, cases, wfVars, clockVars>>

\* publish report.status.updated and answer 200
updateStatusPublish(s, pubOk) ==
    /\ req[s].pc = "publish"
    /\ Publish(NewEvent(EvReportStatusUpdated, req[s].report,
                        [report_id |-> req[s].report, old_status |-> req[s].oldStatus,
                         new_status |-> req[s].status,
                         owner_agency |-> req[s].ownerAgency]), pubOk)
    /\ Respond(req[s].sub, req[s].report, req[s].status, 200)
    /\ req' = [req EXCEPT ![s] = IdleReq]
    /\ UNCHANGED <<lastDelivered, pending, batch, cmdVars, projVars, citizenVars,
                   cases, caseHistory, wfVars, clockVars>>

(***************************************************************************)
(* Workflow service: SLA jobs, notifications, SLA sweeper                  *)
(***************************************************************************)
\* variant: the duration the service starts with
GetSLADuration_default == DefaultSLADuration

GetSLADuration == slaDuration

\* Go's int and time.Duration are 64-bit two's complement integers; they are
\* kept here as 4 words of 16 bits, least significant first
Int64Words == 4
WordSize == 65536

RECURSIVE ToWords(_, _)
ToWords(n, k) ==
    IF k = 0 THEN <<>> ELSE <<n % WordSize>> \o ToWords(n \div WordSize, k - 1)

\* the int64 of a small natural number
Int64(n) == ToWords(n, Int64Words)

RECURSIVE FromWords(_)
FromWords(w) == IF w = <<>> THEN 0 ELSE Head(w) + WordSize * FromWords(Tail(w))

IsNegative(w) == w[Int64Words] >= WordSize \div 2

\* w < n, signed, for a natural number n below 2^16
Int64Less(w, n) ==
    \/ IsNegative(w)
    \/ /\ \A i \in 2..Int64Words : w[i] = 0
       /\ w[1] < n

\* w * m for a small natural number m, the carry out of the last word being
\* dropped as the 64-bit multiplication drops it
RECURSIVE MulSmall(_, _, _)
MulSmall(w, m, carry) ==
    IF w = <<>> THEN <<>>
    ELSE LET p == Head(w) * m + carry
         IN <<p % WordSize>> \o MulSmall(Tail(w), m, p \div WordSize)

\* quotient and remainder of a non-negative w by a small natural number m
RECURSIVE DivSmall(_, _)
DivSmall(w, m) ==
    IF w = <<>> THEN [q |-> <<>>, r |-> 0]
    ELSE LET hi == DivSmall(Tail(w), m)
             cur == hi.r * WordSize + Head(w)
         IN [q |-> <<cur \div m>> \o hi.q, r |-> cur % m]

\* time.Duration(d) * time.Second, time.Second being 1000 * 1000 * 1000 ns
TimesSecond(d) == MulSmall(MulSmall(MulSmall(d, 1000, 0), 1000, 0), 1000, 0)

\* the whole seconds of a non-negative time.Duration; the durations that the
\* requests of the model produce stay below 2^31 seconds
DurationSeconds(dur) ==
    FromWords(DivSmall(DivSmall(DivSmall(dur, 1000).q, 1000).q, 1000).q)

\* 2^55 as an int64: 36028797018963968
TwoToThe55 == <<0, 0, 0, 128>>

\* -1 as an int64
MinusOne == <<65535, 65535, 65535, 65535>>

\* the values of req.DurationSeconds that the clients try
ReqDurationsInt64 == {Int64(n) : n \in ReqDurations}
ReqDurationsWide == ReqDurationsInt64 \cup {Int64(0), Int64(3600), TwoToThe55, MinusOne}

\* newDuration := time.Duration(req.DurationSeconds) * time.Second, in
\* seconds, for the accepted values among them
newDuration ==
    [d \in {x \in ReqDurationsWide : ~Int64Less(x, MinSLADuration)} |->
        DurationSeconds(TimesSecond(d))]

\* durationSeconds: req.DurationSeconds, an int64; slaDuration is kept in
\* seconds
setSLAConfigHandler(durationSeconds) ==
    /\ ~Int64Less(durationSeconds, MinSLADuration)
    /\ slaDuration' = newDuration[durationSeconds]
    /\ Quiet
    /\ UNCHANGED <<busVars, cmdVars, projVars, citizenVars, opsVars,
                   slaJobs, projection, notifications, sweeper, clockVars>>

JobRows(jobs, reportID) == {j \in jobs : j.report_id = reportID}

\* variant: the insert into sla_jobs overwrites an existing row
wfHandleReportCreated_jobUpsert(wf, event, duration) ==
    LET p == event.payload
        dueAt == p.created_at + duration
    IN [wf EXCEPT
          !.projection =
              IF \E x \in @ : x.report_id = p.report_id
              THEN {IF x.report_id = p.report_id
                    THEN [x EXCEPT !.current_status = "RECEIVED"] ELSE x : x \in @}
              ELSE @ \cup {[report_id |-> p.report_id,
                            reporter_user_id |-> p.reporter_user_id,
                            current_status |-> "RECEIVED", due_at |-> dueAt]},
          !.slaJobs =
              {j \in @ : j.report_id # p.report_id}
                 \cup {[report_id |-> p.report_id, due_at |-> dueAt,
                         status |-> "PENDING", escalation_level |-> 0]}]

\* variant: the handler creates the projection row only
wfHandleReportCreated_noJob(wf, event, duration) ==
    LET p == event.payload
    IN [wf EXCEPT
          !.projection =
              @ \cup {[report_id |-> p.report_id,
                       reporter_user_id |-> p.reporter_user_id,
                       current_status |-> "RECEIVED",
                       due_at |-> p.created_at + duration]}]

\* wf = [projection, slaJobs, notifications]: the tables of the workflow store
wfHandleReportCreated(wf, event, duration) ==
    LET p == event.payload
        dueAt == p.created_at + duration
    IN [wf EXCEPT
          !.projection =
              IF \E x \in @ : x.report_id = p.report_id
              THEN {IF x.report_id = p.report_id
                    THEN [x EXCEPT !.current_status = "RECEIVED"] ELSE x : x \in @}
              ELSE @ \cup {[report_id |-> p.report_id,
                            reporter_user_id |-> p.reporter_user_id,
                            current_status |-> "RECEIVED", due_at |-> dueAt]},
          !.slaJobs =
              IF JobRows(@, p.report_id) # {} THEN @
              ELSE @ \cup {[report_id |-> p.report_id, due_at |-> dueAt,
                            status |-> "PENDING", escalation_level |-> 0]}]

\* the update of sla_jobs done for a RESOLVED status
completeJob(jobs, reportID) ==
    {IF j.report_id = reportID THEN [j EXCEPT !.status = "COMPLETED"] ELSE j : j \in jobs}

handleStatusUpdated(wf, event) ==
    LET p == event.payload
        projection1 == {IF x.report_id = p.report_id
                        THEN [x EXCEPT !.current_status = p.new_status] ELSE x
                        : x \in wf.projection}
        slaJobs1 == IF p.new_status = "RESOLVED"
                    THEN completeJob(wf.slaJobs, p.report_id) ELSE wf.slaJobs
        rows == {x \in projection1 : x.report_id = p.report_id}
        reporterUserID == IF rows = {} THEN ""
                          ELSE (CHOOSE x \in rows : TRUE).reporter_user_id
    IN [projection |-> projection1,
        slaJobs |-> slaJobs1,
        notifications |->
            IF reporterUserID # ""
            THEN Append(wf.notifications,
                        [user_id |-> reporterUserID, report_id |-> p.report_id,
                         message |-> "Your report status has been updated to: "
                                        \o p.new_status,
                         is_read |-> FALSE])
            ELSE wf.notifications]

\* handler of the workflow consumer: it returns nil for every event
startConsumerWorkflow(wf, event, duration) ==
    IF event.event_type = EvReportCreated THEN wfHandleReportCreated(wf, event, duration)
    ELSE IF event.event_type = EvReportStatusUpdated THEN handleStatusUpdated(wf, event)
    ELSE wf

WfConsumeOne(ackOutcomes) ==
    /\ batch[WorkflowGroup] # <<>>
    /\ LET i == Head(batch[WorkflowGroup]) IN
       \E ackOk \in ackOutcomes :
          LET wf == startConsumerWorkflow(
                       [projection |-> projection, slaJobs |-> slaJobs,
                        notifications |-> notifications],
                       stream[i], GetSLADuration)
          IN /\ projection' = wf.projection
             /\ slaJobs' = wf.slaJobs
             /\ notifications' = wf.notifications
             /\ AckOrSkip(WorkflowGroup, i, {}, FALSE, ackOk)
    /\ UNCHANGED <<cmdVars, projVars, citizenVars, opsVars, slaDuration, sweeper, clockVars>>

\* the SLA ticker fires every SweepPeriod seconds; its channel holds one tick
Tick ==
    /\ now' = now + SweepPeriod
    /\ tickDue' = TRUE
    /\ Quiet
    /\ UNCHANGED <<busVars, cmdVars, projVars, citizenVars, opsVars, wfVars>>

\* variant: the select returns a job only one period after its deadline
Overdue_onePeriodLate(jobs, t) ==
    {[ReportID |-> j.report_id, EscalationLevel |-> j.escalation_level] :
        j \in {x \in jobs : x.status = "PENDING" /\ x.due_at + SweepPeriod < t}}

\* variant: the select ignores the deadline
Overdue_anyPending(jobs, t) ==
    {[ReportID |-> j.report_id, EscalationLevel |-> j.escalation_level] :
        j \in {x \in jobs : x.status = "PENDING"}}

\* SELECT report_id, escalation_level ... WHERE status = 'PENDING' AND due_at < now
Overdue(jobs, t) ==
    {[ReportID |-> j.report_id, EscalationLevel |-> j.escalation_level] :
        j \in {x \in jobs : x.status = "PENDING" /\ x.due_at < t}}

\* checkSLABreaches, from the tick to the end of the select;
\* selOk = FALSE is a failed query, after which the sweep returns
checkSLABreachesSelect(selOk) ==
    /\ sweeper.pc = "idle"
    /\ tickDue
    /\ tickDue' = FALSE
    /\ LET breaches == IF selOk THEN Overdue(slaJobs, now) ELSE {}
       IN sweeper' = IF breaches = {} THEN IdleSweeper
                     ELSE [IdleSweeper EXCEPT !.pc = "update", !.breaches = breaches]
    /\ Quiet
    /\ UNCHANGED <<busVars, cmdVars, projVars, citizenVars, opsVars,
                   slaDuration, slaJobs, projection, notifications, now>>

\* variant: the update raises the level and leaves the status as it is
escalateJob_keepsStatus(jobs, reportID, newLevel) ==
    {IF j.report_id = reportID
     THEN [j EXCEPT !.escalation_level = newLevel]
     ELSE j : j \in jobs}

\* the update of sla_jobs done for a breach
escalateJob(jobs, reportID, newLevel) ==
    {IF j.report_id = reportID
     THEN [j EXCEPT !.status = "ESCALATED", !.escalation_level = newLevel]
     ELSE j : j \in jobs}

SweeperAfter(rest) ==
    IF rest = {} THEN IdleSweeper
    ELSE [IdleSweeper EXCEPT !.pc = "update", !.breaches = rest]

\* the loop over the breaches, in the order of the result set, which the
\* query leaves open: the update of one breach; dbOk = FALSE is a failed
\* update, after which the loop continues with the next breach
checkSLABreachesUpdate(dbOk) ==
    /\ sweeper.pc = "update"
    /\ \E breach \in sweeper.breaches :
          LET newLevel == breach.EscalationLevel + 1 IN
          IF dbOk
          THEN /\ slaJobs' = escalateJob(slaJobs, breach.ReportID, newLevel)
               /\ sweeper' = [sweeper EXCEPT !.pc = "publish",
                                             !.cur = breach.ReportID,
                                             !.newLevel = newLevel]
          ELSE /\ sweeper' = SweeperAfter(sweeper.breaches \ {breach})
               /\ UNCHANGED slaJobs
    /\ Quiet
    /\ UNCHANGED <<busVars, cmdVars, projVars, citizenVars, opsVars,
                   slaDuration, projection, notifications, clockVars>>

\* the publish of report.escalated for the breach just updated
checkSLABreachesPublish(pubOk) ==
    /\ sweeper.pc = "publish"
    /\ Publish(NewEvent(EvReportEscalated, sweeper.cur,
                        [report_id |-> sweeper.cur, reason |-> "SLA_BREACH",
                         escalation_level |-> sweeper.newLevel]), pubOk)
    /\ sweeper' = SweeperAfter({b \in sweeper.breaches : b.ReportID # sweeper.cur})
    /\ Quiet
    /\ UNCHANGED <<lastDelivered, pending, batch, cmdVars, projVars, citizenVars,
                   opsVars, slaDuration, slaJobs, projection, notifications, clockVars>>

(***************************************************************************)
(* Specification of the case workflow: citizens, officers, the operations  *)
(* and workflow consumers, the SLA sweeper                                 *)
(***************************************************************************)
\* stream entries still to be published by the work in progress
Reserved ==
    Cardinality({s \in Slots : req[s].pc # "idle"}) + Cardinality(sweeper.breaches)
        + Cardinality({s \in VoteSlots : vreq[s].pc # "idle"})

Room(cap, n) == Len(stream) + Reserved + n <= cap

CitizenCreates(cap, visibilities) ==
    /\ nextReportId <= MaxCitizenReports
    /\ Room(cap, 1)
    /\ \E sub \in Citizens, content \in ReqContents \ {""}, visibility \in visibilities,
          category \in ReqCitizenCategories :
          createReportHandlerCQRS(sub, content, visibility, category, TRUE, TRUE, TRUE, TRUE)

OpsRead ==
    /\ XReadGroup(OpsGroup)
    /\ UNCHANGED <<cmdVars, projVars, platformVars>>

OpsConsume == OpsConsumeOne({TRUE}, {TRUE})

OfficerBegins(cap) ==
    /\ Room(cap, 1)
    /\ \E s \in Slots, sub \in Officers, reportID \in 1..MaxCitizenReports,
          status \in ReqCaseStatuses, selOk \in BOOLEAN :
          updateStatusBegin(s, sub, reportID, status, selOk)

OfficerUpdates(dbOutcomes) ==
    \E s \in Slots, dbOk \in dbOutcomes : updateStatusExec(s, dbOk)

OfficerRecords(dbOutcomes) ==
    \E s \in Slots, dbOk \in dbOutcomes : updateStatusHistory(s, dbOk)

OfficerPublishes == \E s \in Slots : updateStatusPublish(s, TRUE)

WfRead ==
    /\ XReadGroup(WorkflowGroup)
    /\ UNCHANGED <<cmdVars, projVars, platformVars>>

WfConsume == WfConsumeOne({TRUE})

SetSLAConfig == \E d \in ReqDurationsInt64 : setSLAConfigHandler(d)

ClockTick == now < MaxTicks * SweepPeriod /\ Tick

SweeperSelects ==
    /\ Room(MaxWfEvents, Cardinality(Overdue(slaJobs, now)))
    /\ checkSLABreachesSelect(TRUE)

SweeperUpdates == checkSLABreachesUpdate(TRUE)

SweeperPublishes == checkSLABreachesPublish(TRUE)

NextWorkflow ==
    \/ CitizenCreates(MaxWfEvents, ReqVisibilities)
    \/ OpsRead
    \/ OpsConsume
    \/ OfficerBegins(MaxWfEvents)
    \/ OfficerUpdates({TRUE})
    \/ OfficerRecords({TRUE})
    \/ OfficerPublishes
    \/ WfRead
    \/ WfConsume
    \/ SetSLAConfig
    \/ ClockTick
    \/ SweeperSelects
    \/ SweeperUpdates
    \/ SweeperPublishes

SpecWorkflow == Init /\ [][NextWorkflow]_vars

\* the operations service alone, with the failures of its store
NextOps ==
    \/ CitizenCreates(MaxOpsEvents, {""})
    \/ OpsRead
    \/ OpsConsume
    \/ OfficerBegins(MaxOpsEvents)
    \/ OfficerUpdates(BOOLEAN)
    \/ OfficerRecords(BOOLEAN)
    \/ OfficerPublishes

SpecOps == Init /\ [][NextOps]_vars

\* the case workflow with bus and stores reachable: every publish, insert,
\* update and select succeeds; the Consume loops of the operations and the
\* workflow service keep running
\* with the store reachable the select of updateStatusHandler succeeds;
\* the officers' requests are served one after the other
HappyOfficerBegins(cap) ==
    /\ Room(cap, 1)
    /\ \E sub \in Officers, reportID \in 1..MaxCitizenReports,
          status \in ReqCaseStatuses \cap validStatuses :
          updateStatusBegin(1, sub, reportID, status, TRUE)

NextHappy ==
    \/ CitizenCreates(MaxHappyEvents, {""})
    \/ OpsRead
    \/ OpsConsume
    \/ HappyOfficerBegins(MaxHappyEvents)
    \/ OfficerUpdates({TRUE})
    \/ OfficerRecords({TRUE})
    \/ OfficerPublishes
    \/ WfRead
    \/ WfConsume

SpecHappy ==
    /\ Init
    /\ [][NextHappy]_vars
    /\ WF_vars(OpsRead)
    /\ WF_vars(OpsConsume)
    /\ WF_vars(WfRead)
    /\ WF_vars(WfConsume)

\* the SLA sweeper with the failures of its store and of the bus, next to
\* the citizens, the officers and the two consumers
SweeperSelectsAny ==
    /\ Room(MaxSweepEvents, Cardinality(Overdue(slaJobs, now)))
    /\ \E selOk \in BOOLEAN : checkSLABreachesSelect(selOk)

SweeperUpdatesAny == \E dbOk \in BOOLEAN : checkSLABreachesUpdate(dbOk)

SweeperPublishesAny == \E pubOk \in BOOLEAN : checkSLABreachesPublish(pubOk)

NextSweeper ==
    \/ CitizenCreates(MaxSweepEvents, {""})
    \/ OpsRead
    \/ OpsConsume
    \/ HappyOfficerBegins(MaxSweepEvents)
    \/ OfficerUpdates({TRUE})
    \/ OfficerRecords({TRUE})
    \/ OfficerPublishes
    \/ WfRead
    \/ WfConsume
    \/ SetSLAConfig
    \/ ClockTick
    \/ SweeperSelectsAny
    \/ SweeperUpdatesAny
    \/ SweeperPublishesAny

SpecSweeper == Init /\ [][NextSweeper]_vars

\* the ticker keeps firing after the last clock value of the model
HorizonTick ==
    /\ now = MaxTicks * SweepPeriod
    /\ tickDue' = TRUE
    /\ Quiet
    /\ UNCHANGED <<busVars, cmdVars, projVars, citizenVars, opsVars, wfVars, now>>

\* the SLA sweeper with store and bus reachable, for reports on which no
\* officer acts (no report.status.updated is published): the ticker fires
\* for ever and every step of checkSLABreaches succeeds
NextBreach ==
    \/ CitizenCreates(MaxSweepEvents, ReqVisibilities)
    \/ WfRead
    \/ WfConsume
    \/ SetSLAConfig
    \/ ClockTick
    \/ HorizonTick
    \/ checkSLABreachesSelect(TRUE)
    \/ SweeperUpdates
    \/ SweeperPublishes

SpecBreach ==
    /\ Init
    /\ [][NextBreach]_vars
    /\ WF_vars(ClockTick \/ HorizonTick)
    /\ WF_vars(checkSLABreachesSelect(TRUE))
    /\ WF_vars(SweeperUpdates)
    /\ WF_vars(SweeperPublishes)

\* operator replay of a report.created entry
ReplayCreated(cap) ==
    /\ Room(cap, 1)
    /\ \E i \in 1..Len(stream) :
          stream[i].event_type = EvReportCreated /\ Replay(i)
    /\ UNCHANGED <<cmdVars, projVars, platformVars>>

\* the case router under redelivery of report.created, next to the officers
NextRouter ==
    \/ CitizenCreates(MaxRouterEvents, {""})
    \/ OpsRead
    \/ OpsConsumeOne(BOOLEAN, {TRUE})
    \/ HappyOfficerBegins(MaxRouterEvents)
    \/ OfficerUpdates({TRUE})
    \/ OfficerRecords({TRUE})
    \/ OfficerPublishes
    \/ ReplayCreated(MaxRouterEvents)

SpecRouter == Init /\ [][NextRouter]_vars

\* the workflow consumer under redelivery of report.created, next to the
\* officers, the SLA configuration and the sweeper
RedeliverySweeperSelects ==
    /\ Room(MaxRedeliveryEvents, Cardinality(Overdue(slaJobs, now)))
    /\ checkSLABreachesSelect(TRUE)

NextRedelivery ==
    \/ CitizenCreates(MaxRedeliveryEvents, {""})
    \/ OpsRead
    \/ OpsConsume
    \/ HappyOfficerBegins(MaxRedeliveryEvents)
    \/ OfficerUpdates({TRUE})
    \/ OfficerRecords({TRUE})
    \/ OfficerPublishes
    \/ WfRead
    \/ WfConsume
    \/ SetSLAConfig
    \/ ClockTick
    \/ RedeliverySweeperSelects
    \/ SweeperUpdates
    \/ SweeperPublishes
    \/ ReplayCreated(MaxRedeliveryEvents)

SpecRedelivery == Init /\ [][NextRedelivery]_vars

(***************************************************************************)
(* Properties of the event bus and the projection worker                   *)
(***************************************************************************)
InBatch(g, i) == \E k \in 1..Len(batch[g]) : batch[g][k] = i

\* this step is the Consume iteration of group g for stream entry i
IsIteration(g, i) ==
    /\ batch[g] # <<>>
    /\ i = Head(batch[g])
    /\ batch'[g] = Tail(batch[g])
    /\ lastIter'.group = g
    /\ lastIter'.idx = i

Count(stats, category, status) ==
    IF StatRow(stats, category, status) = {} THEN 0
    ELSE (CHOOSE s \in StatRow(stats, category, status) : TRUE).count

LiveRows(rrm, category, status) ==
    Cardinality({x \in rrm : x.category = category /\ x.status = status})

\* C1: after handleEvent ran the pipelines of all replicas for a message,
\* the handler returned an error iff no replica's pipeline succeeded, XACK
\* was issued for the message iff at least one pipeline succeeded, and the
\* message has left the group's pending list only through such an XACK.
C1_AckIffSomeReplicaSucceeded ==
    lastIter.group = ConsumerGroup =>
        /\ lastIter.err <=> lastIter.ok = {}
        /\ lastIter.ack # "none" <=> lastIter.ok # {}
        /\ lastIter.ok = {} => lastIter.idx \in pending[ConsumerGroup]
        /\ lastIter.ack = "acked" <=> lastIter.idx \notin pending[ConsumerGroup]

C1_Witness ==
    /\ lastIter.group = ConsumerGroup
    /\ lastIter.ok # {}
    /\ lastIter.ok # Replicas
    /\ lastIter.ack = "acked"
    /\ lastIter.idx \notin pending[ConsumerGroup]

\* C2: an event that was delivered to the projection group and is left
\* unacknowledged (it is pending and no longer held by the consumer) is
\* eventually delivered to the group's consumer again.
C2_UnackedIsRedelivered ==
    \A id \in 1..MaxStream :
        (\E i \in pending[ConsumerGroup] :
            stream[i].event_id = id /\ ~InBatch(ConsumerGroup, i))
        ~> (\E k \in 1..Len(batch[ConsumerGroup]) :
               stream[batch[ConsumerGroup][k]].event_id = id)

\* C3: the ledger of a replica only grows, and a Consume iteration for an
\* event whose id is already in the replica's ledger changes nothing on
\* that replica.
C3_LedgerIdempotent ==
    [][\A r \in Replicas :
          /\ replica[r].ledger \subseteq replica'[r].ledger
          /\ \A i \in 1..Len(stream) :
                (IsIteration(ConsumerGroup, i) /\ stream[i].event_id \in replica[r].ledger)
                => replica'[r] = replica[r]]_vars

\* a replayed event was handled on a replica that had already applied it
C3_Witness ==
    /\ lastIter.group = ConsumerGroup
    /\ \E j \in 1..Len(stream) :
          /\ j < lastIter.idx
          /\ stream[j].event_id = stream[lastIter.idx].event_id
          /\ j \notin pending[ConsumerGroup]
    /\ \E r \in Replicas :
          /\ stream[lastIter.idx].event_id \in replica[r].ledger
          /\ replica[r].rrm # {}
          /\ r \in lastIter.ok

\* C4: an event id is in a replica's ledger iff all read-model and counter
\* statements of the event are committed on the replica, and a pipeline run
\* that returns an error leaves the replica as it was.
C4_PipelineAtomic ==
    /\ [](\A r \in Replicas : replica[r].ledger = replica[r].applied)
    /\ [][\A r \in Replicas : \A i \in 1..Len(stream) :
            (IsIteration(ConsumerGroup, i) /\ r \notin lastIter'.ok)
            => replica'[r] = replica[r]]_vars

\* a pipeline run failed on a replica while another replica committed
C4_Witness ==
    /\ lastIter.group = ConsumerGroup
    /\ \E r1, r2 \in Replicas :
          /\ r1 \notin lastIter.ok
          /\ r2 \in lastIter.ok
          /\ stream[lastIter.idx].event_id \notin replica[r1].ledger
          /\ stream[lastIter.idx].event_id \in replica[r2].ledger

AllReplicasUp == \A r \in Replicas : up[r]

\* C5: when every replica failure is transient (from some point on every
\* replica stays reachable), every event of the stream is eventually
\* recorded in the ledger of every replica.
C5_NoReplicaMissesEvent ==
    <>[]AllReplicasUp =>
        \A i \in 1..MaxStream :
            (Len(stream) >= i)
            ~> (Len(stream) >= i /\ \A r \in Replicas : stream[i].event_id \in replica[r].ledger)

\* C6: on every replica the counter of (category, status) equals the number
\* of reports_read_model rows with that category and status.
C6_CountersMatchRows ==
    \A r \in Replicas : \A category \in ValidCategories, status \in ValidStatuses :
        Count(replica[r].stats, category, status)
            = LiveRows(replica[r].rrm, category, status)

\* C7: every counter of report_statistics is >= 0 on every replica.
C7_CountersNonNegative ==
    \A r \in Replicas : \A s \in replica[r].stats : s.count >= 0

\* a decrement met a counter that was already 0: the counter is still 0
\* although the report's earlier status under that category was left twice
C7_Witness ==
    \E r \in Replicas : \E s, t \in replica[r].stats :
        /\ s.count = 0
        /\ t.count >= 2
        /\ s.category = t.category
        /\ Cardinality(replica[r].rrm) = 1

(***************************************************************************)
(* Properties of the workflow and the operations service                   *)
(***************************************************************************)
JobStatus(jobs, reportID) == (CHOOSE j \in JobRows(jobs, reportID) : TRUE).status

\* C8: an SLA job whose status is COMPLETED keeps that status in every
\* step, whatever the interleaving of the sweeper and the workflow consumer.
C8_CompletedIsTerminal ==
    [][\A j \in slaJobs :
          j.status = "COMPLETED" => JobStatus(slaJobs', j.report_id) = "COMPLETED"]_vars

\* C9: an SLA job that the sweeper has set to ESCALATED keeps that status
\* in every step: no later report.status.updated event moves it to COMPLETED
\* or to any other status.
C9_EscalatedIsNeverCompleted ==
    [][\A j \in slaJobs :
          j.status = "ESCALATED" => JobStatus(slaJobs', j.report_id) = "ESCALATED"]_vars

Agency(sub) == Users[sub].Agency

OwnerAgency(reportID) == (CHOOSE c \in CaseRows(cases, reportID) : TRUE).owner_agency

StatusOf(cs, reportID) == (CHOOSE c \in CaseRows(cs, reportID) : TRUE).status

StatusEvents(str, reportID) ==
    {k \in 1..Len(str) : /\ str[k].event_type = EvReportStatusUpdated
                         /\ str[k].report_id = reportID}

\* the request in slot s, of an officer of the owner agency of its case,
\* takes a step
OwnerRequestSteps(s, reportID) ==
    /\ req[s].pc # "idle"
    /\ req[s].report = reportID
    /\ req'[s] # req[s]
    /\ Agency(req[s].sub) = OwnerAgency(reportID)

C11_ResolvedIsTerminal ==
    [][\A c \in cases :
          c.status = "RESOLVED" => StatusOf(cases', c.report_id) = "RESOLVED"]_vars

\* the create-report request for report r returned success: the report row
\* is stored and its report.created event is in the stream
Created(r) ==
    /\ \E x \in reports : x.report_id = r
    /\ \E k \in 1..Len(stream) :
          stream[k].event_type = EvReportCreated /\ stream[k].report_id = r

CategoryOf(r) == (CHOOSE x \in reports : x.report_id = r).category

\* C12: with bus and stores reachable, every create-report request that
\* returned success (the report is created and, as at the return of the
\* request, has no case row, resp. no SLA job yet) is eventually followed
\* by a state with a case row for the report, status RECEIVED, owner agency
\* mapped from the category, and by a state with an SLA job for the report,
\* status PENDING; both rows stay in their tables from then on.
C12_HappyPathLiveness ==
    /\ [][/\ \A c \in cases : CaseRows(cases', c.report_id) # {}
          /\ \A j \in slaJobs : JobRows(slaJobs', j.report_id) # {}]_vars
    /\ \A r \in 1..MaxCitizenReports :
        /\ (Created(r) /\ CaseRows(cases, r) = {}) ~>
              \E c \in cases :
                 /\ c.report_id = r
                 /\ c.status = "RECEIVED"
                 /\ c.owner_agency = CategoryToAgency[CategoryOf(r)]
        /\ (Created(r) /\ JobRows(slaJobs, r) = {}) ~>
              \E j \in slaJobs : j.report_id = r /\ j.status = "PENDING"

\* the case row and the SLA job of a created report, as the two consumers
\* made them
C12_Witness ==
    \E r \in 1..MaxCitizenReports :
        /\ Created(r)
        /\ \E c \in cases :
              /\ c.report_id = r
              /\ c.status = "RECEIVED"
              /\ c.owner_agency = CategoryToAgency[CategoryOf(r)]
        /\ \E j \in slaJobs : j.report_id = r /\ j.status = "PENDING"
        /\ pending[OpsGroup] = {}
        /\ pending[WorkflowGroup] = {}

\* the workflow consumer has handled every entry of the stream, the sweeper
\* is between two sweeps and no officer request is in progress
WorkflowQuiescent ==
    /\ lastDelivered[WorkflowGroup] = Len(stream)
    /\ batch[WorkflowGroup] = <<>>
    /\ sweeper.pc = "idle"
    /\ \A s \in Slots : req[s].pc = "idle"

\* C13: whenever the workflow consumer has handled every published event,
\* the sweeper is idle and no officer request is in progress, every case
\* with status RESOLVED has an SLA job of the same report with status
\* COMPLETED.
C13_ResolvedCaseHasCompletedJob ==
    WorkflowQuiescent =>
        \A c \in cases :
            c.status = "RESOLVED" =>
                \E j \in slaJobs : j.report_id = c.report_id /\ j.status = "COMPLETED"

EscalatedEvents(str, reportID) ==
    {k \in 1..Len(str) : /\ str[k].event_type = EvReportEscalated
                         /\ str[k].report_id = reportID}

\* the sweeper is between the update and the publish of the job's breach
SweeperProcessing(reportID) == sweeper.pc = "publish" /\ sweeper.cur = reportID

\* C14: for every SLA job with status ESCALATED and escalation_level L > 0
\* that the sweeper is not in the middle of processing, the stream holds a
\* report.escalated event with the job's report id and escalation_level L,
\* whether the sweeper's publish succeeded or failed.
C14_EscalatedJobHasEvent ==
    \A j \in slaJobs :
        (/\ j.status = "ESCALATED"
         /\ j.escalation_level > 0
         /\ ~SweeperProcessing(j.report_id))
        => \E k \in EscalatedEvents(stream, j.report_id) :
              stream[k].payload.escalation_level = j.escalation_level

JobLevel(jobs, reportID) ==
    (CHOOSE j \in JobRows(jobs, reportID) : TRUE).escalation_level

\* this step is the sweeper's update of sla_jobs for a breach
IsEscalation == sweeper.pc = "update" /\ sweeper'.pc = "publish"

\* C15: over any number of ticks an SLA job is set to ESCALATED at most
\* once: the sweeper's update for a job finds the job never escalated before
\* (level 0) and leaves it ESCALATED at level 1, the level of a job never
\* decreases and never exceeds 1, and the stream holds at most one
\* report.escalated event per report.
C15_EscalatesAtMostOnce ==
    /\ [](\A j \in slaJobs : j.escalation_level \in {0, 1})
    /\ [](\A r \in 1..MaxCitizenReports :
            Cardinality(EscalatedEvents(stream, r)) <= 1)
    /\ [](\A j \in slaJobs :
            j.escalation_level = 0 => EscalatedEvents(stream, j.report_id) = {})
    /\ [][IsEscalation =>
            /\ JobLevel(slaJobs, sweeper'.cur) = 0
            /\ JobLevel(slaJobs', sweeper'.cur) = 1
            /\ JobStatus(slaJobs', sweeper'.cur) = "ESCALATED"]_vars
    /\ [][\A j \in slaJobs :
            JobLevel(slaJobs', j.report_id) >= j.escalation_level]_vars

\* a job escalated by the first sweep has gone through a second sweep
C15_Witness ==
    \E j \in slaJobs :
        /\ j.status = "ESCALATED"
        /\ j.escalation_level = 1
        /\ Cardinality(EscalatedEvents(stream, j.report_id)) = 1
        /\ j.due_at < SweepPeriod
        /\ now >= 2 * SweepPeriod
        /\ ~tickDue
        /\ sweeper.pc = "idle"

\* C16: with store and bus reachable, the ticker firing for ever and no
\* report.status.updated published, a PENDING job whose deadline has passed
\* is eventually ESCALATED at level 1 with a report.escalated event (reason
\* SLA_BREACH, level 1) in the stream.
C16_BreachLiveness ==
    \A r \in 1..MaxCitizenReports :
        (\E j \in slaJobs :
            /\ j.report_id = r
            /\ j.status = "PENDING"
            /\ j.due_at < now)
        ~> /\ \E j \in slaJobs :
                 /\ j.report_id = r
                 /\ j.status = "ESCALATED"
                 /\ j.escalation_level = 1
           /\ \E k \in EscalatedEvents(stream, r) :
                 /\ stream[k].payload.reason = "SLA_BREACH"
                 /\ stream[k].payload.escalation_level = 1

\* a job escalated by the sweeper without any status update of its report
C16_Witness ==
    \E j \in slaJobs :
        /\ j.status = "ESCALATED"
        /\ j.escalation_level = 1
        /\ j.due_at < now
        /\ StatusEvents(stream, j.report_id) = {}
        /\ \E k \in EscalatedEvents(stream, j.report_id) :
              /\ stream[k].payload.reason = "SLA_BREACH"
              /\ stream[k].payload.escalation_level = 1

BreachIds(sw) == {b.ReportID : b \in sw.breaches}

\* C17: the breaches a sweep holds after its select are jobs that were
\* PENDING with due_at < now at the select, the sweep adds none later, and
\* every step that sets a job to ESCALATED, changes its level or publishes
\* report.escalated for a report is a step of the sweep for one of its
\* breaches: a job not yet overdue, COMPLETED or ESCALATED at the select is
\* not touched by that sweep.
C17_SweeperEscalatesOnlySelected ==
    /\ [][(sweeper.pc = "idle" /\ sweeper'.pc # "idle") =>
            \A b \in sweeper'.breaches :
               \E j \in slaJobs :
                  /\ j.report_id = b.ReportID
                  /\ j.escalation_level = b.EscalationLevel
                  /\ j.status = "PENDING"
                  /\ j.due_at < now]_vars
    /\ [][sweeper.pc # "idle" => sweeper'.breaches \subseteq sweeper.breaches]_vars
    /\ [][\A j \in slaJobs :
            (\/ /\ JobStatus(slaJobs', j.report_id) = "ESCALATED"
                /\ j.status # "ESCALATED"
             \/ JobLevel(slaJobs', j.report_id) # j.escalation_level
             \/ EscalatedEvents(stream', j.report_id)
                   # EscalatedEvents(stream, j.report_id))
            => /\ sweeper.pc # "idle"
               /\ j.report_id \in BreachIds(sweeper)]_vars

\* two sweeps have run over a job that was completed before its deadline
\* passed for the sweeper, and have left it alone
C17_Witness ==
    \E j \in slaJobs :
        /\ j.status = "COMPLETED"
        /\ j.escalation_level = 0
        /\ j.due_at < now
        /\ EscalatedEvents(stream, j.report_id) = {}
        /\ now = 2 * SweepPeriod
        /\ ~tickDue
        /\ sweeper.pc = "idle"

IsCreated(i) == stream[i].event_type = EvReportCreated

\* C18: there is at most one case row per report, and exactly one after the
\* router handled report.created for the report without error, however
\* often the event was delivered; a delivery of report.created for a report
\* that has a case row leaves the table cases as it is, whatever the
\* officers did to the row in between.
C18_CaseRouterIdempotent ==
    /\ [](\A r \in 1..MaxCitizenReports : Cardinality(CaseRows(cases, r)) <= 1)
    /\ []((/\ lastIter.group = OpsGroup
           /\ ~lastIter.err
           /\ IsCreated(lastIter.idx))
          => Cardinality(CaseRows(cases, stream[lastIter.idx].report_id)) = 1)
    /\ [][\A i \in 1..Len(stream) :
            (/\ IsIteration(OpsGroup, i)
             /\ IsCreated(i)
             /\ CaseRows(cases, stream[i].report_id) # {})
            => cases' = cases]_vars

\* the router has just handled a second delivery of report.created for a
\* case that an officer had moved on from RECEIVED
C18_Witness ==
    /\ lastIter.group = OpsGroup
    /\ ~lastIter.err
    /\ IsCreated(lastIter.idx)
    /\ \E k \in 1..lastIter.idx - 1 :
          IsCreated(k) /\ stream[k].report_id = stream[lastIter.idx].report_id
    /\ \E c \in cases :
          /\ c.report_id = stream[lastIter.idx].report_id
          /\ c.status # "RECEIVED"

\* entry i is a delivery of report.created for a report of which an
\* earlier entry already carried report.created
IsRedelivery(i) ==
    /\ IsCreated(i)
    /\ \E k \in 1..i - 1 : IsCreated(k) /\ stream[k].report_id = stream[i].report_id

ProjectionRows(proj, reportID) == {x \in proj : x.report_id = reportID}

ProjectionStatus(proj, reportID) ==
    (CHOOSE x \in ProjectionRows(proj, reportID) : TRUE).current_status

\* C20: a delivery of report.created to the workflow consumer for a report
\* whose report_status_projection row exists leaves the row's
\* current_status as it is.
C20_ProjectionRedeliveryIdempotent ==
    [][\A i \in 1..Len(stream) :
          (/\ IsIteration(WorkflowGroup, i)
           /\ IsCreated(i)
           /\ ProjectionRows(projection, stream[i].report_id) # {})
          => ProjectionStatus(projection', stream[i].report_id)
                = ProjectionStatus(projection, stream[i].report_id)]_vars

(***************************************************************************)
(* The reporting service with its consumer, the case router and officers   *)
(* of the owner agency; the UPDATE of the consumer may fail                *)
(***************************************************************************)
MaxReportingEvents == 3

ReportingRead ==
    /\ XReadGroup(ReportingGroup)
    /\ UNCHANGED <<cmdVars, projVars, platformVars>>

ReportingConsume == ReportingConsumeOne(BOOLEAN, {TRUE})

NextReporting ==
    \/ CitizenCreates(MaxReportingEvents, ReqVisibilities)
    \/ OpsRead
    \/ OpsConsume
    \/ HappyOfficerBegins(MaxReportingEvents)
    \/ OfficerUpdates({TRUE})
    \/ OfficerRecords({TRUE})
    \/ OfficerPublishes
    \/ ReportingRead
    \/ ReportingConsume

SpecReporting ==
    /\ Init
    /\ [][NextReporting]_vars
    /\ WF_vars(OpsRead)
    /\ WF_vars(OpsConsume)
    /\ WF_vars(ReportingRead)
    /\ WF_vars(ReportingConsume)

\* the reporting-service consumer has consumed every published event
ReportingQuiescent ==
    /\ lastDelivered[ReportingGroup] = Len(stream)
    /\ batch[ReportingGroup] = <<>>

\* new_status of the last report.status.updated event published for the
\* report, RECEIVED if none was published
LastPublishedStatus(reportID) ==
    LET ks == StatusEvents(stream, reportID)
    IN IF ks = {} THEN "RECEIVED"
       ELSE stream[CHOOSE k \in ks : \A j \in ks : j <= k].payload.new_status

\* C21: once the reporting-service consumer has consumed all published
\* events, my_reports_view holds exactly one row for every report, and its
\* current_status is the new_status of the last report.status.updated event
\* published for the report (RECEIVED if there is none)
C21_MyReportsStatusConverges ==
    ReportingQuiescent =>
        \A x \in reports :
            LET rows == ReportRows(myReportsView, x.report_id)
            IN /\ Cardinality(rows) = 1
               /\ \A row \in rows : row.current_status = LastPublishedStatus(x.report_id)

(***************************************************************************)
(* The reporting service with a write store and a read store that may     *)
(* fail during a create request                                            *)
(***************************************************************************)
MaxSeedingEvents == 2

CitizenCreatesAny(cap, pubOutcomes) ==
    /\ nextReportId <= MaxCitizenReports
    /\ Room(cap, 1)
    /\ \E sub \in Citizens, content \in ReqContents, visibility \in ReqVisibilities,
          category \in ReqCitizenCategories,
          writeOk \in BOOLEAN, myViewOk \in BOOLEAN, publicViewOk \in BOOLEAN,
          pubOk \in pubOutcomes :
          createReportHandlerCQRS(sub, content, visibility, category,
                                  writeOk, myViewOk, publicViewOk, pubOk)

NextSeeding ==
    \/ CitizenCreatesAny(MaxSeedingEvents, {TRUE})
    \/ OpsRead
    \/ OpsConsume
    \/ HappyOfficerBegins(MaxSeedingEvents)
    \/ OfficerUpdates({TRUE})
    \/ OfficerRecords({TRUE})
    \/ OfficerPublishes
    \/ ReportingRead
    \/ ReportingConsume

SpecSeeding ==
    /\ Init
    /\ [][NextSeeding]_vars
    /\ WF_vars(OpsRead)
    /\ WF_vars(OpsConsume)
    /\ WF_vars(ReportingRead)
    /\ WF_vars(ReportingConsume)

VisibilityOf(reportID) == (CHOOSE x \in reports : x.report_id = reportID).visibility

\* C22: a created report has exactly one row in reports, and eventually
\* exactly one row in my_reports_view, and in public_reports_view exactly one
\* row if its visibility is PUBLIC and none otherwise, also when the inline
\* insert of the create request failed
C22_ReadViewsConverge ==
    /\ [](\A x \in reports : Cardinality(ReportRows(reports, x.report_id)) = 1)
    /\ \A r \in 1..MaxCitizenReports :
          (ReportRows(reports, r) # {}) ~>
             (/\ Cardinality(ReportRows(myReportsView, r)) = 1
              /\ Cardinality(ReportRows(publicReportsView, r)) =
                    IF VisibilityOf(r) = "PUBLIC" THEN 1 ELSE 0)

(***************************************************************************)
(* The reporting service: citizens create reports and upvote them          *)
(***************************************************************************)
MaxVoteEvents == 3

VoterBegins(cap, voters, selOutcomes) ==
    /\ Room(cap, 1)
    /\ \E s \in VoteSlots, sub \in voters, reportID \in 1..MaxCitizenReports + 1,
          selOk \in selOutcomes : upvoteBegin(s, sub, reportID, selOk)

VoterInserts(dbOutcomes) ==
    \E s \in VoteSlots, dbOk \in dbOutcomes : upvoteInsert(s, dbOk)

VoterCounts(dbOutcomes) ==
    \E s \in VoteSlots, dbOk \in dbOutcomes : upvoteCount(s, dbOk)

VoterUpdatesMy(dbOutcomes) ==
    \E s \in VoteSlots, dbOk \in dbOutcomes : upvoteUpdateMy(s, dbOk)

VoterUpdatesPublic(dbOutcomes) ==
    \E s \in VoteSlots, dbOk \in dbOutcomes : upvoteUpdatePublic(s, dbOk)

VoterPublishes(pubOutcomes) ==
    \E s \in VoteSlots, pubOk \in pubOutcomes : upvotePublish(s, pubOk)

\* no store and no publish fails; two voters
NextVotes ==
    \/ CitizenCreates(MaxVoteEvents, ReqVisibilities)
    \/ VoterBegins(MaxVoteEvents, Voters, {TRUE})
    \/ VoterInserts({TRUE})
    \/ VoterCounts({TRUE})
    \/ VoterUpdatesMy({TRUE})
    \/ VoterUpdatesPublic({TRUE})
    \/ VoterPublishes({TRUE})

SpecVotes == Init /\ [][NextVotes]_vars

NoUpvoteInProgress == \A s \in VoteSlots : vreq[s].pc = "idle"

\* C23: when every upvote request has completed, vote_count of a report in
\* my_reports_view and in public_reports_view is the number of distinct
\* voters of the report in the votes table
C23_VoteCountMatchesVotes ==
    NoUpvoteInProgress =>
        \A row \in myReportsView \cup publicReportsView :
            row.vote_count = Cardinality(VoteRows(votes, row.report_id))

(***************************************************************************)
(* The reporting service: one citizen creates a report and upvotes it      *)
(* several times, no store and no publish failing                          *)
(***************************************************************************)
MaxUpvoteEvents == 3

NextUpvote ==
    \/ CitizenCreates(MaxUpvoteEvents, ReqVisibilities)
    \/ VoterBegins(MaxUpvoteEvents, Citizens, {TRUE})
    \/ VoterInserts({TRUE})
    \/ VoterCounts({TRUE})
    \/ VoterUpdatesMy({TRUE})
    \/ VoterUpdatesPublic({TRUE})
    \/ VoterPublishes({TRUE})

SpecUpvote == Init /\ [][NextUpvote]_vars

VotesOf(vs, reportID, sub) ==
    {v \in vs : v.report_id = reportID /\ v.voter_user_id = sub}

UpvotedEvents(str, reportID, sub) ==
    {k \in 1..Len(str) : /\ str[k].event_type = EvReportUpvoted
                         /\ str[k].report_id = reportID
                         /\ str[k].payload.voter_user_id = sub}

\* this step answers 200 to an upvote
IsUpvoteSuccess == lastReply'.op = "upvote" /\ lastReply'.code = 200

\* C24: when one voter upvotes the same PUBLIC report several times, every
\* request succeeds and publishes one more report.upvoted event, while the
\* votes table holds exactly one row for (report, voter) and both read views
\* show vote_count 1 once the requests are over
C24_UpvoteIdempotent ==
    /\ [][lastReply'.op = "upvote" /\ lastReply'.code # 200 =>
             \/ ReportRows(reports, lastReply'.report) = {}
             \/ VisibilityOf(lastReply'.report) # "PUBLIC"]_vars
    /\ [][IsUpvoteSuccess =>
             /\ Cardinality(VotesOf(votes', lastReply'.report, lastReply'.sub)) = 1
             /\ Cardinality(UpvotedEvents(stream', lastReply'.report, lastReply'.sub))
                   = Cardinality(UpvotedEvents(stream, lastReply'.report, lastReply'.sub)) + 1
             /\ NoUpvoteInProgress' =>
                   \A row \in myReportsView' \cup publicReportsView' :
                       row.report_id = lastReply'.report => row.vote_count = 1]_vars

\* the second upvote of citizen1 on report 1 has succeeded
C24_Witness ==
    /\ lastReply.op = "upvote"
    /\ lastReply.code = 200
    /\ Cardinality(UpvotedEvents(stream, lastReply.report, lastReply.sub)) = 2
    /\ Cardinality(VotesOf(votes, lastReply.report, lastReply.sub)) = 1
    /\ NoUpvoteInProgress
    /\ \E row \in publicReportsView : row.report_id = lastReply.report /\ row.vote_count = 1

(***************************************************************************)
(* The reporting service: citizens create reports and upvote them, with   *)
(* a write store that may fail during an upvote                            *)
(***************************************************************************)
MaxFaultyVoteEvents == 3

NextVotesAny ==
    \/ CitizenCreates(MaxFaultyVoteEvents, ReqVisibilities)
    \/ VoterBegins(MaxFaultyVoteEvents, Voters, BOOLEAN)
    \/ VoterInserts(BOOLEAN)
    \/ VoterCounts({TRUE})
    \/ VoterUpdatesMy({TRUE})
    \/ VoterUpdatesPublic({TRUE})
    \/ VoterPublishes({TRUE})

SpecVotesAny == Init /\ [][NextVotesAny]_vars

\* the report does not exist or is stored as ANONYMOUS
NotUpvotable(reportID) ==
    \/ ReportRows(reports, reportID) = {}
    \/ VisibilityOf(reportID) = "ANONYMOUS"

\* C25: an upvote on an ANONYMOUS report or on a report id that does not
\* exist is answered with an error (404 or 400) in the step that receives it
\* and changes neither the votes table, nor a vote_count, nor the stream; no
\* request in progress, no votes row and no report.upvoted event is ever
\* about such a report
C25_RejectedUpvoteMutatesNothing ==
    /\ [][lastReply'.op = "upvote" /\ NotUpvotable(lastReply'.report) =>
             /\ lastReply'.code \in {400, 404}
             /\ UNCHANGED <<votes, myReportsView, publicReportsView, stream, vreq>>]_vars
    /\ [](\A s \in VoteSlots : vreq[s].pc # "idle" => ~NotUpvotable(vreq[s].report))
    /\ [](\A v \in votes : ~NotUpvotable(v.report_id))
    /\ [](\A k \in 1..Len(stream) :
             stream[k].event_type = EvReportUpvoted => ~NotUpvotable(stream[k].report_id))

\* an upvote on an ANONYMOUS report has just been refused
C25_Witness ==
    /\ lastReply.op = "upvote"
    /\ lastReply.code = 400
    /\ ReportRows(reports, lastReply.report) # {}
    /\ VisibilityOf(lastReply.report) = "ANONYMOUS"
    /\ votes = {}

(***************************************************************************)
(* The reporting service: create requests with stores and a bus that may  *)
(* fail, the reporting-service consumer, the case router and the officers  *)
(***************************************************************************)
MaxCreateEvents == 2

NextCreate ==
    \/ CitizenCreatesAny(MaxCreateEvents, BOOLEAN)
    \/ OpsRead
    \/ OpsConsume
    \/ HappyOfficerBegins(MaxCreateEvents)
    \/ OfficerUpdates({TRUE})
    \/ OfficerRecords({TRUE})
    \/ OfficerPublishes
    \/ ReportingRead
    \/ ReportingConsume

SpecCreate == Init /\ [][NextCreate]_vars

\* this step answers a create request
IsCreateReply == lastReply'.op = "create"

CreatedEvents(str) == {k \in 1..Len(str) : str[k].event_type = EvReportCreated}

\* C26: a create request answers 201 exactly when its row was inserted into
\* the reports table, whatever became of the read-view inserts and of the
\* publish; a request that fails (400, 500) writes no row into reports or a
\* read view and publishes no event
C26_CreateSucceedsIffReportStored ==
    [][IsCreateReply =>
          /\ lastReply'.code \in {201, 400, 500}
          /\ lastReply'.code = 201 <=>
                /\ Cardinality(reports') = Cardinality(reports) + 1
                /\ ReportRows(reports, lastReply'.report) = {}
                /\ Cardinality(ReportRows(reports', lastReply'.report)) = 1
          /\ lastReply'.code # 201 =>
                UNCHANGED <<reports, myReportsView, publicReportsView, stream>>]_vars

\* a create request has answered 201 although both read-view inserts and the
\* publish failed
C26_Witness ==
    /\ lastReply.op = "create"
    /\ lastReply.code = 201
    /\ ReportRows(reports, lastReply.report) # {}
    /\ VisibilityOf(lastReply.report) = "PUBLIC"
    /\ ReportRows(myReportsView, lastReply.report) = {}
    /\ ReportRows(publicReportsView, lastReply.report) = {}
    /\ CreatedEvents(stream) = {}

\* C27: a create request that answers 201 while the read store is reachable
\* leaves one my_reports_view row for the report, in status RECEIVED, and a
\* public_reports_view row, with vote_count 0, exactly when the stored
\* visibility is PUBLIC; the stored visibility is PUBLIC or ANONYMOUS, and
\* ANONYMOUS only when requested, and an ANONYMOUS report never has a
\* public_reports_view row
C27_InlineSeeding ==
    /\ [][IsCreateReply /\ lastReply'.code = 201 =>
             LET r == lastReply'.report
                 mine == ReportRows(myReportsView', r)
                 public == ReportRows(publicReportsView', r)
                 stored == ReportRows(reports', r)
             IN /\ Cardinality(mine) = 1
                /\ \A row \in mine : row.current_status = "RECEIVED"
                /\ \A x \in stored :
                      IF x.visibility = "PUBLIC"
                      THEN Cardinality(public) = 1 /\ \A row \in public : row.vote_count = 0
                      ELSE public = {}]_vars
    /\ [](\A x \in reports : x.visibility \in {"PUBLIC", "ANONYMOUS"})
    /\ [](\A x \in reports :
             x.visibility = "ANONYMOUS" => ReportRows(publicReportsView, x.report_id) = {})

\* an ANONYMOUS report has just been created and seeded in my_reports_view only
C27_Witness ==
    /\ lastReply.op = "create"
    /\ lastReply.code = 201
    /\ VisibilityOf(lastReply.report) = "ANONYMOUS"
    /\ ReportRows(myReportsView, lastReply.report) # {}
    /\ ReportRows(publicReportsView, lastReply.report) = {}

\* the history rows of a report, in insertion order
RECURSIVE HistoryOf(_, _)
HistoryOf(h, reportID) ==
    IF h = <<>> THEN <<>>
    ELSE IF Head(h).report_id = reportID
         THEN <<Head(h)>> \o HistoryOf(Tail(h), reportID)
         ELSE HistoryOf(Tail(h), reportID)

\* the updates of the case of a report that were committed and whose request
\* went past the insert of its history row
RecordedUpdates(reportID) ==
    Cardinality(StatusEvents(stream, reportID))
        + Cardinality({s \in Slots : req[s].pc = "publish" /\ req[s].report = reportID})

\* C28: every committed status update of a case has exactly one history row
\* and no history row exists without its update; the old_status of each row
\* is the status its update replaced: RECEIVED for the first row of a case,
\* the new_status of the row before for the others
C28_HistoryAtomicWithUpdate ==
    \A r \in 1..MaxCitizenReports :
        LET h == HistoryOf(caseHistory, r)
        IN /\ Len(h) = RecordedUpdates(r)
           /\ \A i \in 1..Len(h) :
                 h[i].old_status = IF i = 1 THEN "RECEIVED" ELSE h[i - 1].new_status

\* init-workflow-db.sql: CHECK (status IN ('RECEIVED', 'IN_PROGRESS', 'RESOLVED'))
CaseStatusCheck == {"RECEIVED", "IN_PROGRESS", "RESOLVED"}

\* C29: an update-status request with a status outside RECEIVED, IN_PROGRESS,
\* RESOLVED is answered 400, one for a report without case is answered with
\* an error (404; 403 when the select itself failed), and neither changes a
\* case row, the history or the stream; no request goes on with such a
\* status or report, and the status of every case is one of the three values
C29_InvalidUpdateRejected ==
    /\ [][lastResp'.code # 0 /\ lastResp'.status \notin CaseStatusCheck =>
             /\ lastResp'.code = 400
             /\ UNCHANGED <<cases, caseHistory, stream, req>>]_vars
    /\ [][/\ lastResp'.code # 0
          /\ lastResp'.status \in CaseStatusCheck
          /\ CaseRows(cases, lastResp'.report) = {}
          => /\ lastResp'.code \in {403, 404}
             /\ UNCHANGED <<cases, caseHistory, stream, req>>]_vars
    /\ [](\A s \in Slots : req[s].pc # "idle" =>
             /\ req[s].status \in CaseStatusCheck
             /\ CaseRows(cases, req[s].report) # {})
    /\ [](\A c \in cases : c.status \in CaseStatusCheck)

\* a request with an unknown status for a case that an officer had moved on
\* has been refused
C29_Witness ==
    /\ lastResp.code = 400
    /\ lastResp.status \notin CaseStatusCheck
    /\ CaseRows(cases, lastResp.report) # {}
    /\ StatusOf(cases, lastResp.report) = "IN_PROGRESS"
    /\ Len(caseHistory) = 1

(***************************************************************************)
(* The workflow service: set-config requests of any size, with the        *)
(* readers of the SLA duration                                             *)
(***************************************************************************)
SetSLAConfigWide == \E d \in ReqDurationsWide : setSLAConfigHandler(d)

NextSLAConfig ==
    \/ CitizenCreates(MaxSweepEvents, ReqVisibilities)
    \/ WfRead
    \/ WfConsume
    \/ SetSLAConfigWide
    \/ ClockTick
    \/ checkSLABreachesSelect(TRUE)
    \/ SweeperUpdates
    \/ SweeperPublishes

SpecSLAConfig == Init /\ [][NextSLAConfig]_vars

\* C30: the SLA duration is at least 10 seconds in every reachable state,
\* and a step that changes it sets it to a requested value of at least 10
\* seconds
C30_SLADurationAtLeastMin ==
    /\ [](slaDuration >= MinSLADuration)
    /\ [][slaDuration' # slaDuration => slaDuration' \in {10, 3600}]_vars

\* the payload of the report.created event of a report
CreatedAt(reportID) ==
    stream[CHOOSE k \in 1..Len(stream) :
              stream[k].event_type = EvReportCreated /\ stream[k].report_id = reportID
          ].payload.created_at

\* C31: when the workflow consumer handles report.created for a report that
\* has no SLA job, the step creates exactly one job for it, due at the
\* event's created_at plus the SLA duration of that moment, PENDING, at
\* escalation level 0; and no step changes the deadline of an existing job.
C31_DeadlineAssignment ==
    [][/\ \A i \in 1..Len(stream) :
            ( /\ IsIteration(WorkflowGroup, i)
              /\ stream[i].event_type = EvReportCreated
              /\ JobRows(slaJobs, stream[i].report_id) = {} )
            => JobRows(slaJobs', stream[i].report_id) =
                  {[report_id |-> stream[i].report_id,
                    due_at |-> stream[i].payload.created_at + slaDuration,
                    status |-> "PENDING", escalation_level |-> 0]}
       /\ \A j \in slaJobs :
            \E k \in slaJobs' : k.report_id = j.report_id /\ k.due_at = j.due_at]_vars

\* a job created after the clock moved, under a configured duration, whose
\* deadline stayed when the duration was changed afterwards
C31_Witness ==
    \E j \in slaJobs :
        /\ CreatedAt(j.report_id) > 0
        /\ j.due_at = CreatedAt(j.report_id) + 10
        /\ slaDuration = 3600

(***************************************************************************)
(* The consumer groups of the stream, from a Redis without groups          *)
(***************************************************************************)
MaxGroupEvents == 2  \* events published while the groups come into being

\* lastDelivered of a group that XGROUP CREATE has not created yet
NoGroup == -1

\* variant: the group is created at "$", the end of the stream
CreateConsumerGroup_atEnd(g) ==
    /\ lastDelivered' = [lastDelivered EXCEPT
                            ![g] = IF @ = NoGroup THEN Len(stream) ELSE @]
    /\ Quiet
    /\ UNCHANGED <<stream, nextEventId, pending, batch>>

\* XGROUP CREATE report-events g 0 MKSTREAM: a new group is positioned
\* before the first entry of the stream; for an existing group Redis answers
\* BUSYGROUP, which the adapter ignores
CreateConsumerGroup(g) ==
    /\ lastDelivered' = [lastDelivered EXCEPT ![g] = IF @ = NoGroup THEN 0 ELSE @]
    /\ Quiet
    /\ UNCHANGED <<stream, nextEventId, pending, batch>>

\* a consumer of group g enters Consume: the first instance of the service,
\* a further instance or a restarted one
ConsumeStarts(g) ==
    /\ CreateConsumerGroup(g)
    /\ UNCHANGED <<cmdVars, projVars, platformVars>>

\* the read of the loop of Consume, which is entered once
\* CreateConsumerGroup returned nil
GroupRead(g) ==
    /\ lastDelivered[g] # NoGroup
    /\ XReadGroup(g)
    /\ UNCHANGED <<cmdVars, projVars, platformVars>>

InitNoGroups ==
    /\ stream = <<>>
    /\ nextEventId = 1
    /\ lastDelivered = [g \in Groups |-> NoGroup]
    /\ pending = [g \in Groups |-> {}]
    /\ batch = [g \in Groups |-> <<>>]
    /\ lastIter = NoIter
    /\ InitProj
    /\ InitPlatform

ProjConsume == ProjConsumeOne({TRUE})

NextGroups ==
    \/ CreateReport(MaxGroupEvents, FewRequests)
    \/ UpdateReport(MaxGroupEvents, FewRequests)
    \/ CitizenCreates(MaxGroupEvents, {""})
    \/ \E g \in Groups : ConsumeStarts(g)
    \/ \E g \in Groups : GroupRead(g)
    \/ ProjConsume
    \/ OpsConsume
    \/ WfConsume
    \/ ReportingConsume

\* the next step of the consumer of group g: it enters Consume, reads, or
\* handles the head of its batch
ConsumerStep(g) ==
    \/ ConsumeStarts(g)
    \/ GroupRead(g)
    \/ g = ConsumerGroup /\ ProjConsume
    \/ g = OpsGroup /\ OpsConsume
    \/ g = WorkflowGroup /\ WfConsume
    \/ g = ReportingGroup /\ ReportingConsume

\* every service is started, and its Consume loop keeps running
SpecGroups ==
    /\ InitNoGroups
    /\ [][NextGroups]_vars
    /\ \A g \in Groups : WF_vars(ConsumerStep(g))

\* C32: each of the four groups has every entry of the stream delivered to
\* a consumer, the entries appended before the group was created included;
\* the position of a group never moves back, so creating it again does not
\* reset it.
C32_EveryEventReachesEveryGroup ==
    /\ \A g \in Groups : \A i \in 1..MaxGroupEvents :
          (Len(stream) >= i /\ lastDelivered[g] < i) ~> (InBatch(g, i) /\ i \in pending[g])
    /\ [][\A g \in Groups : lastDelivered'[g] >= lastDelivered[g]]_vars

\* a group that does not exist yet while the stream holds the events that
\* another group has already had delivered
C32_Witness ==
    \E g, h \in Groups :
        /\ lastDelivered[g] = NoGroup
        /\ Len(stream) = MaxGroupEvents
        /\ lastDelivered[h] = MaxGroupEvents
        /\ batch[h] = <<>>

\* C33: with one consumer per group, when the handler of a group is invoked
\* for an entry, its calls for all earlier entries of the same report are
\* over (they were delivered and have left the batch) and no later entry of
\* that report has been handled (it is still in the batch or not yet
\* delivered): the handler sees the events of a report in stream order.
C33_PerReportOrder ==
    [][\A g \in Groups : \A i \in 1..Len(stream) :
          IsIteration(g, i) =>
             \A j \in 1..Len(stream) :
                stream[j].report_id = stream[i].report_id =>
                   /\ j < i => (j <= lastDelivered[g] /\ ~InBatch(g, j))
                   /\ j > i => (j > lastDelivered[g] \/ InBatch(g, j))]_vars

\* the workflow consumer has just handled the status update of a report,
\* the second event of the report, after the first was handled and
\* acknowledged
C33_Witness ==
    /\ lastIter.group = WorkflowGroup
    /\ lastIter.idx = 2
    /\ stream[1].report_id = stream[2].report_id
    /\ stream[2].event_type = EvReportStatusUpdated
    /\ lastDelivered[WorkflowGroup] = 2
    /\ 1 \notin pending[WorkflowGroup]
    /\ projection # {}

(***************************************************************************)
(* The workflow consumer with a store whose statements may fail            *)
(***************************************************************************)
MaxNotifyEvents == 3

\* handleReportCreated with the outcomes of its two statements: each is its
\* own autocommit statement on its own table, an error is only logged
wfHandleReportCreatedDb(wf, event, duration, projOk, jobOk) ==
    LET done == wfHandleReportCreated(wf, event, duration)
    IN [wf EXCEPT !.projection = IF projOk THEN done.projection ELSE @,
                  !.slaJobs = IF jobOk THEN done.slaJobs ELSE @]

\* handleStatusUpdated with the outcomes of its statements: the UPDATE of
\* the projection, the UPDATE of sla_jobs, the SELECT of the reporter (on
\* an error reporterUserID stays "") and the INSERT of the notification
handleStatusUpdatedDb(wf, event, updOk, doneOk, selOk, insOk) ==
    LET done == handleStatusUpdated(wf, event)
    IN [projection |-> IF updOk THEN done.projection ELSE wf.projection,
        slaJobs |-> IF doneOk THEN done.slaJobs ELSE wf.slaJobs,
        notifications |-> IF selOk /\ insOk THEN done.notifications
                          ELSE wf.notifications]

\* ok = <<first, second, third, fourth>>: the outcomes of the statements
startConsumerWorkflowDb(wf, event, duration, ok) ==
    IF event.event_type = EvReportCreated
    THEN wfHandleReportCreatedDb(wf, event, duration, ok[1], ok[2])
    ELSE IF event.event_type = EvReportStatusUpdated
    THEN handleStatusUpdatedDb(wf, event, ok[1], ok[2], ok[3], ok[4])
    ELSE wf

WfConsumeOneDb(dbOutcomes) ==
    /\ batch[WorkflowGroup] # <<>>
    /\ LET i == Head(batch[WorkflowGroup]) IN
       \E ok \in dbOutcomes :
          LET wf == startConsumerWorkflowDb(
                       [projection |-> projection, slaJobs |-> slaJobs,
                        notifications |-> notifications],
                       stream[i], GetSLADuration, ok)
          IN /\ projection' = wf.projection
             /\ slaJobs' = wf.slaJobs
             /\ notifications' = wf.notifications
             /\ AckOrSkip(WorkflowGroup, i, {}, FALSE, TRUE)
    /\ UNCHANGED <<cmdVars, projVars, citizenVars, opsVars, slaDuration, sweeper, clockVars>>

\* the first statement of a handler fails, the last one fails, or none
StatementOutcomes ==
    {<<TRUE, TRUE, TRUE, TRUE>>, <<FALSE, TRUE, TRUE, TRUE>>, <<TRUE, TRUE, TRUE, FALSE>>}

WfConsumeDb == WfConsumeOneDb(StatementOutcomes)

NextNotify ==
    \/ CitizenCreates(MaxNotifyEvents, {""})
    \/ OpsRead
    \/ OpsConsume
    \/ HappyOfficerBegins(MaxNotifyEvents)
    \/ OfficerUpdates({TRUE})
    \/ OfficerRecords({TRUE})
    \/ OfficerPublishes
    \/ WfRead
    \/ WfConsumeDb

SpecNotify == Init /\ [][NextNotify]_vars

ReporterOf(reportID) == (CHOOSE x \in reports : x.report_id = reportID).reporter_user_id

\* C34: every step in which the workflow consumer handles a
\* report.status.updated event appends exactly one notification, for the
\* reporter of the report, with the message for the new status and the read
\* flag false; so the notifications of a report are as many as its status
\* events that the consumer has handled.
C34_OneNotificationPerStatusEvent ==
    /\ [][\A i \in 1..Len(stream) :
            (IsIteration(WorkflowGroup, i) /\ stream[i].event_type = EvReportStatusUpdated)
            => notifications' =
                  Append(notifications,
                         [user_id |-> ReporterOf(stream[i].report_id),
                          report_id |-> stream[i].report_id,
                          message |-> "Your report status has been updated to: "
                                         \o stream[i].payload.new_status,
                          is_read |-> FALSE])]_vars
    /\ [](\A x \in reports :
            Cardinality({n \in 1..Len(notifications) :
                            notifications[n].report_id = x.report_id})
              = Cardinality({k \in StatusEvents(stream, x.report_id) :
                                k <= lastDelivered[WorkflowGroup]
                                /\ ~InBatch(WorkflowGroup, k)}))

(***************************************************************************)
(* The case router for reports of every category                           *)
(***************************************************************************)
\* the categories of the routing table, an omitted category and two values
\* that the table does not hold
ReqRoutedCategories == DOMAIN CategoryToAgency \cup {"", "zzz", "Kesehatan"}

CitizenCreatesIn(cap, categories) ==
    /\ nextReportId <= MaxCitizenReports
    /\ Room(cap, 1)
    /\ \E sub \in Citizens, category \in categories :
          createReportHandlerCQRS(sub, "c1", "", category, TRUE, TRUE, TRUE, TRUE)

NextRouting ==
    \/ CitizenCreatesIn(MaxRouterEvents, ReqRoutedCategories)
    \/ OpsRead
    \/ OpsConsumeOne(BOOLEAN, {TRUE})
    \/ HappyOfficerBegins(MaxRouterEvents)
    \/ OfficerUpdates({TRUE})
    \/ OfficerRecords({TRUE})
    \/ OfficerPublishes
    \/ ReplayCreated(MaxRouterEvents)

SpecRouting == Init /\ [][NextRouting]_vars

\* the agency that is to own the reports of a category
RoutedAgency(category) ==
    IF category \in {"infrastruktur", "kebersihan", "lainnya"} THEN "AGENCY_INFRA"
    ELSE IF category = "kesehatan" THEN "AGENCY_HEALTH"
    ELSE IF category \in {"keamanan", "kriminalitas"} THEN "AGENCY_SAFETY"
    ELSE "AGENCY_INFRA"

\* C35: the owner agency of every case is AGENCY_INFRA for the categories
\* infrastruktur, kebersihan and lainnya, AGENCY_HEALTH for kesehatan,
\* AGENCY_SAFETY for keamanan and kriminalitas and AGENCY_INFRA for any other
\* category of the report; and the router, handling report.created with its
\* store reachable, ends with a case for the report.
C35_CategoryRouting ==
    /\ [](\A c \in cases : c.owner_agency = RoutedAgency(CategoryOf(c.report_id)))
    /\ [][\A i \in 1..Len(stream) :
            ( /\ IsIteration(OpsGroup, i)
              /\ stream[i].event_type = EvReportCreated
              /\ ~lastIter'.err )
            => \E c \in cases' :
                  /\ c.report_id = stream[i].report_id
                  /\ c.owner_agency = RoutedAgency(stream[i].payload.category)]_vars

\* a case of a report whose category the routing table does not hold
C35_Witness ==
    \E c \in cases :
        /\ CategoryOf(c.report_id) \notin DOMAIN CategoryToAgency
        /\ c.owner_agency = "AGENCY_INFRA"
        /\ lastIter.group = OpsGroup

(***************************************************************************)
(* Command service: requests served concurrently, statement by statement   *)
(***************************************************************************)
MaxSyncEvents == 3

cmdFrame == UNCHANGED <<lastDelivered, pending, batch, projVars, platformVars>>

\* createReportHandler up to the commit of its transaction
createReportInsert(s, title, category) ==
    /\ creq[s].pc = "idle"
    /\ title # ""
    /\ category # ""
    /\ IsValidCategory(category)
    /\ nextReportId <= MaxReports
    /\ LET report == [id |-> nextReportId, title |-> title,
                      category |-> category, status |-> StatusPending]
       IN /\ cmdReports' = cmdReports \cup {report}
          /\ nextReportId' = nextReportId + 1
          /\ creq' = [creq EXCEPT ![s] = [pc |-> "publish", op |-> ReportCreated,
                                          report |-> report]]
    /\ Quiet
    /\ UNCHANGED <<stream, nextEventId>>
    /\ cmdFrame

\* updateReportHandler up to "Update fields": validation, the SELECT of the
\* report (404 without a row) and the merge of the request into the row read
updateReportSelect(s, id, title, category, status) ==
    /\ creq[s].pc = "idle"
    /\ status = "" \/ IsValidStatus(status)
    /\ category = "" \/ IsValidCategory(category)
    /\ RowsById(cmdReports, id) # {}
    /\ LET old == CHOOSE x \in cmdReports : x.id = id
           report == [id |-> id,
                      title |-> IF title # "" THEN title ELSE old.title,
                      category |-> IF category # "" THEN category ELSE old.category,
                      status |-> IF status # "" THEN status ELSE old.status]
       IN creq' = [creq EXCEPT ![s] = [pc |-> "update", op |-> ReportUpdated,
                                       report |-> report]]
    /\ Quiet
    /\ UNCHANGED <<cmdReports, nextReportId, stream, nextEventId>>
    /\ cmdFrame

\* UPDATE reports SET ... WHERE id = $6: no row, no change, no error
updateReportExec(s) ==
    /\ creq[s].pc = "update"
    /\ cmdReports' = {IF x.id = creq[s].report.id THEN creq[s].report ELSE x
                      : x \in cmdReports}
    /\ creq' = [creq EXCEPT ![s].pc = "publish"]
    /\ Quiet
    /\ UNCHANGED <<nextReportId, stream, nextEventId>>
    /\ cmdFrame

\* deleteReportHandler up to the check of existence (404 without a row)
deleteReportSelect(s, id) ==
    /\ creq[s].pc = "idle"
    /\ RowsById(cmdReports, id) # {}
    /\ creq' = [creq EXCEPT ![s] = [pc |-> "delete", op |-> ReportDeleted,
                                    report |-> [NoReport EXCEPT !.id = id]]]
    /\ Quiet
    /\ UNCHANGED <<cmdReports, nextReportId, stream, nextEventId>>
    /\ cmdFrame

\* DELETE FROM reports WHERE id = $1
deleteReportExec(s) ==
    /\ creq[s].pc = "delete"
    /\ cmdReports' = {x \in cmdReports : x.id # creq[s].report.id}
    /\ creq' = [creq EXCEPT ![s].pc = "publish"]
    /\ Quiet
    /\ UNCHANGED <<nextReportId, stream, nextEventId>>
    /\ cmdFrame

\* "Create and publish event" of the three handlers, and the response
cmdPublish(s, pubOk) ==
    /\ creq[s].pc = "publish"
    /\ LET r == creq[s].report
           payload == IF creq[s].op = ReportDeleted THEN [id |-> r.id] ELSE r
       IN Publish(NewEvent(creq[s].op, r.id, payload), pubOk)
    /\ creq' = [creq EXCEPT ![s] = IdleCmd]
    /\ Quiet
    /\ UNCHANGED <<cmdReports, nextReportId>>
    /\ cmdFrame

\* the stream has room for the events of the requests in progress and n more
CmdRoom(cap, n) ==
    Len(stream) + Cardinality({s \in CmdSlots : creq[s].pc # "idle"}) + n <= cap

\* a client learns the id of a report from the response to its create
\* request, which is sent after the publish
IdKnown(id) == \A s \in CmdSlots : ~(creq[s].op = ReportCreated /\ creq[s].report.id = id)

ClientCreates(cap, rq) ==
    /\ CmdRoom(cap, 1)
    /\ \E s \in CmdSlots, title \in rq.titles, category \in rq.categories :
          createReportInsert(s, title, category)

ClientUpdates(cap, rq) ==
    /\ CmdRoom(cap, 1)
    /\ \E s \in CmdSlots, id \in 1..MaxReports, title \in rq.titles,
          category \in rq.categories, status \in rq.statuses :
          IdKnown(id) /\ updateReportSelect(s, id, title, category, status)

ClientDeletes(cap) ==
    /\ CmdRoom(cap, 1)
    /\ \E s \in CmdSlots, id \in 1..MaxReports : IdKnown(id) /\ deleteReportSelect(s, id)

CmdUpdateRuns == \E s \in CmdSlots : updateReportExec(s)

CmdDeleteRuns == \E s \in CmdSlots : deleteReportExec(s)

CmdPublishes == \E s \in CmdSlots : cmdPublish(s, TRUE)

\* the command service under concurrent requests, with a bus and replicas
\* that stay reachable
NextSync ==
    \/ ClientCreates(MaxSyncEvents, AllRequests)
    \/ ClientUpdates(MaxSyncEvents, AllRequests)
    \/ ClientDeletes(MaxSyncEvents)
    \/ CmdUpdateRuns
    \/ CmdDeleteRuns
    \/ CmdPublishes
    \/ ProjRead
    \/ ProjConsume

SpecSync == Init /\ [][NextSync]_vars

\* no request in progress, every published event applied
SyncQuiescent ==
    /\ \A s \in CmdSlots : creq[s].pc = "idle"
    /\ lastDelivered[ConsumerGroup] = Len(stream)
    /\ batch[ConsumerGroup] = <<>>
    /\ pending[ConsumerGroup] = {}

\* C36: once no request is in progress and every published event has been
\* applied, reports_read_model of every replica holds the rows of the
\* reports table of the command store: the same ids with the same title,
\* category and status.
C36_ReadModelEqualsCommandStore ==
    SyncQuiescent => \A r \in Replicas : replica[r].rrm = cmdReports

(***************************************************************************)
(* Consume with entries that do not parse and a handler that may fail      *)
(***************************************************************************)
MaxParseEvents == 3

\* an entry that another client of Redis added to the stream: it has no
\* field "payload"
ForeignEntry == [event_id |-> 0, event_type |-> "", report_id |-> 0]

\* parseMessage: an error for an entry without a string "payload"
parseMessage(message) == [event |-> message, err |-> "payload" \notin DOMAIN message]

ForeignAppend(cap) ==
    /\ Room(cap, 1)
    /\ stream' = Append(stream, ForeignEntry)
    /\ Quiet
    /\ UNCHANGED <<nextEventId, lastDelivered, pending, batch,
                   cmdVars, projVars, platformVars>>

\* one iteration of the loop of Consume over the messages of a batch, for
\* the consumer of the operations service: a parse error skips the message
\* like a handler error
OpsConsumeParsed(dbOutcomes) ==
    /\ batch[OpsGroup] # <<>>
    /\ LET i == Head(batch[OpsGroup])
           m == parseMessage(stream[i])
       IN IF m.err
          THEN /\ AckOrSkip(OpsGroup, i, {}, TRUE, TRUE)
               /\ UNCHANGED cases
          ELSE \E dbOk \in dbOutcomes :
                  LET h == startConsumerOps(cases, m.event, dbOk) IN
                  /\ cases' = h.cases
                  /\ AckOrSkip(OpsGroup, i, {}, h.err, TRUE)
    /\ UNCHANGED <<cmdVars, projVars, citizenVars, caseHistory, req, wfVars, clockVars>>

OpsConsumeAny == OpsConsumeParsed(BOOLEAN)

NextParse ==
    \/ CitizenCreates(MaxParseEvents, {""})
    \/ ForeignAppend(MaxParseEvents)
    \/ ReplayCreated(MaxParseEvents)
    \/ OpsRead
    \/ OpsConsumeAny

\* Redis stays reachable and the Consume loop keeps running
SpecParse ==
    /\ Init
    /\ [][NextParse]_vars
    /\ WF_vars(OpsRead)
    /\ WF_vars(OpsConsumeAny)

\* the iteration that the last step did for entry i failed: the entry did
\* not parse, or the handler returned an error
IterationFailed == parseMessage(stream[lastIter.idx]).err \/ lastIter.err

\* C37: after an iteration of Consume, XACK was issued for the message iff
\* it parsed and the handler returned nil; a message that did not parse or
\* whose handler failed is still pending, and one that did not parse left
\* the store as it was; and every entry of the stream gets its iteration,
\* whatever happened to the entries before it.
C37_AckIffParsedAndHandled ==
    /\ [](lastIter.group = OpsGroup =>
            /\ lastIter.ack = "acked" <=> ~IterationFailed
            /\ IterationFailed <=> lastIter.idx \in pending[OpsGroup])
    /\ [][\A i \in 1..Len(stream) :
            (IsIteration(OpsGroup, i) /\ parseMessage(stream[i]).err)
            => (cases' = cases /\ lastIter'.ack = "none")]_vars
    /\ \A i \in 1..MaxParseEvents :
          (Len(stream) >= i /\ lastDelivered[OpsGroup] < i)
          ~> (lastIter.group = OpsGroup /\ lastIter.idx = i)

\* the third entry was handled (the case exists) and acknowledged after the
\* first did not parse and the handler failed for the second
C37_Witness ==
    /\ lastIter.group = OpsGroup
    /\ lastIter.idx = 3
    /\ lastIter.ack = "acked"
    /\ pending[OpsGroup] = {1, 2}
    /\ parseMessage(stream[1]).err
    /\ ~parseMessage(stream[2]).err
    /\ cases # {}

(***************************************************************************)
(* The Consume call of the projection worker, with cancellation and read   *)
(* errors                                                                  *)
(***************************************************************************)
MaxCancelEvents == 3

workerFrame == UNCHANGED <<cmdVars, replica, up, platformVars>>

\* main (projection): a shutdown signal arrives and cancel() is called;
\* deliveredAtCancel keeps the position of the group at that moment
Cancel ==
    /\ ~worker.cancelled
    /\ worker' = [worker EXCEPT !.cancelled = TRUE,
                                !.deliveredAtCancel = lastDelivered[ConsumerGroup]]
    /\ Quiet
    /\ UNCHANGED busVars
    /\ workerFrame

\* variant: the loop never looks at its context
ConsumeSelect_noDone ==
    /\ worker.pc = "loop"
    /\ batch[ConsumerGroup] = <<>>
    /\ worker' = [worker EXCEPT !.pc = "read"]
    /\ Quiet
    /\ UNCHANGED busVars
    /\ workerFrame

\* the select at the top of the loop: return ctx.Err() once the context is
\* done, the read otherwise
ConsumeSelect ==
    /\ worker.pc = "loop"
    /\ batch[ConsumerGroup] = <<>>
    /\ worker' = [worker EXCEPT !.pc = IF worker.cancelled THEN "returned" ELSE "read"]
    /\ Quiet
    /\ UNCHANGED busVars
    /\ workerFrame

\* XReadGroup of the loop: messages; redis.Nil after the block time (the
\* loop continues); another error (logged, one second of sleep). A call
\* with a cancelled context fails.
ConsumeRead(outcome) ==
    /\ worker.pc = "read"
    /\ IF worker.cancelled \/ outcome = "error"
       THEN /\ worker' = [worker EXCEPT !.pc = "backoff"]
            /\ Quiet
            /\ UNCHANGED busVars
       ELSE IF outcome = "messages"
       THEN /\ XReadGroup(ConsumerGroup)
            /\ worker' = [worker EXCEPT !.pc = "loop"]
       ELSE /\ lastDelivered[ConsumerGroup] = Len(stream)
            /\ worker' = [worker EXCEPT !.pc = "loop"]
            /\ Quiet
            /\ UNCHANGED busVars
    /\ workerFrame

\* time.Sleep(1 * time.Second); continue
ConsumeBackoffEnds ==
    /\ worker.pc = "backoff"
    /\ worker' = [worker EXCEPT !.pc = "loop"]
    /\ Quiet
    /\ UNCHANGED busVars
    /\ workerFrame

\* the loop over the messages of the batch; XAck with a cancelled context
\* fails, which is logged
ConsumeHandles ==
    /\ worker.pc = "loop"
    /\ IF worker.cancelled THEN ProjConsumeOne({FALSE}) ELSE ProjConsumeOne({TRUE})

WorkerReads == \E outcome \in {"messages", "nil", "error"} : ConsumeRead(outcome)

NextCancel ==
    \/ CreateReport(MaxCancelEvents, FewRequests)
    \/ UpdateReport(MaxCancelEvents, FewRequests)
    \/ DeleteReport(MaxCancelEvents)
    \/ Cancel
    \/ ConsumeSelect
    \/ WorkerReads
    \/ ConsumeBackoffEnds
    \/ ConsumeHandles

\* the goroutine of Consume keeps running
SpecCancel ==
    /\ Init
    /\ [][NextCancel]_vars
    /\ WF_vars(ConsumeSelect)
    /\ WF_vars(WorkerReads)
    /\ WF_vars(ConsumeBackoffEnds)
    /\ WF_vars(ConsumeHandles)

\* C38: once the context is cancelled, Consume eventually returns, and no
\* entry is delivered to it after the cancellation, so a handler call made
\* after the cancellation is for a message of the batch read before it; a
\* returned Consume does nothing any more; Consume returns only from the
\* select of a cancelled context, and after a read error it comes back to
\* the top of the loop.
C38_ConsumeTermination ==
    /\ worker.cancelled ~> (worker.pc = "returned")
    /\ [](worker.cancelled =>
              lastDelivered[ConsumerGroup] = worker.deliveredAtCancel)
    /\ [][worker.pc = "returned" =>
              (worker' = worker /\ replica' = replica
                 /\ UNCHANGED <<lastDelivered, pending, batch>>)]_vars
    /\ [][(worker.pc # "returned" /\ worker'.pc = "returned") =>
              (worker.cancelled /\ worker.pc = "loop")]_vars
    /\ (worker.pc = "backoff") ~> (worker.pc = "loop")

\* Consume has returned after a cancellation that came while a batch of two
\* messages was being handled: the second was handled after the
\* cancellation and its XACK failed
C38_Witness ==
    /\ worker.pc = "returned"
    /\ worker.deliveredAtCancel = 2
    /\ 1 \notin pending[ConsumerGroup]
    /\ 2 \in pending[ConsumerGroup]
    /\ \A r \in Replicas : stream[2].event_id \in replica[r].ledger

(***************************************************************************)
(* The three consumers on one stream with the events of both services      *)
(***************************************************************************)
MaxIgnoreEvents == 2

NextIgnore ==
    \/ CreateReport(MaxIgnoreEvents, FewRequests)
    \/ UpdateReport(MaxIgnoreEvents, FewRequests)
    \/ CitizenCreates(MaxIgnoreEvents, {""})
    \/ HappyOfficerBegins(MaxIgnoreEvents)
    \/ OfficerUpdates({TRUE})
    \/ OfficerRecords({TRUE})
    \/ OfficerPublishes
    \/ OpsRead
    \/ OpsConsumeOne(BOOLEAN, {TRUE})
    \/ WfRead
    \/ WfConsume
    \/ ProjRead
    \/ ProjConsume

SpecIgnore == Init /\ [][NextIgnore]_vars

\* the event types for which the handler of a group does something
HandledTypes(g) ==
    IF g = OpsGroup THEN {EvReportCreated}
    ELSE IF g = WorkflowGroup THEN {EvReportCreated, EvReportStatusUpdated}
    ELSE {ReportCreated, ReportUpdated, ReportDeleted}

\* C39: an iteration of the case router, of the workflow consumer or of
\* the projector for an event of a type it does not handle changes no table
\* of the stores of the three services (for the projector: no ledger
\* either), returns no error, and the entry is acknowledged.
C39_UnhandledTypesIgnored ==
    [][\A g \in {OpsGroup, WorkflowGroup, ConsumerGroup} : \A i \in 1..Len(stream) :
          (IsIteration(g, i) /\ stream[i].event_type \notin HandledTypes(g))
          => /\ UNCHANGED <<cases, caseHistory>>
             /\ UNCHANGED <<projection, slaJobs, notifications>>
             /\ replica' = replica
             /\ ~lastIter'.err
             /\ lastIter'.ack = "acked"
             /\ i \notin pending'[g]]_vars

\* the projector has just ignored a report.status.updated event, which the
\* case router has ignored before: no ledger holds an event, and both
\* groups have acknowledged every entry
C39_Witness ==
    /\ lastIter.group = ConsumerGroup
    /\ stream[lastIter.idx].event_type = EvReportStatusUpdated
    /\ \A r \in Replicas : replica[r].ledger = {} /\ replica[r].rrm = {}
    /\ lastDelivered[OpsGroup] = Len(stream)
    /\ batch[OpsGroup] = <<>>
    /\ pending[OpsGroup] = {}
    /\ pending[ConsumerGroup] = {}
    /\ Cardinality(cases) = 1

(***************************************************************************)
(* Concurrent update-status requests: every request is a goroutine of the  *)
(* HTTP server, its four statements interleave with those of the others;   *)
(* bus and stores reachable                                                *)
(***************************************************************************)
MaxRaceEvents == 3

RaceRoom(cap, n) ==
    Len(stream) + Cardinality({s \in RaceSlots : req[s].pc # "idle"}) + n <= cap

RaceOfficerBegins(cap) ==
    /\ RaceRoom(cap, 1)
    /\ \E s \in RaceSlots, sub \in Officers, reportID \in 1..MaxCitizenReports,
          status \in ReqCaseStatuses \cap validStatuses :
          updateStatusBegin(s, sub, reportID, status, TRUE)

RaceOfficerUpdates == \E s \in RaceSlots : updateStatusExec(s, TRUE)

RaceOfficerRecords == \E s \in RaceSlots : updateStatusHistory(s, TRUE)

RaceOfficerPublishes == \E s \in RaceSlots : updateStatusPublish(s, TRUE)

ReportingConsumeOk == ReportingConsumeOne({TRUE}, {TRUE})

NextRace ==
    \/ CitizenCreates(MaxRaceEvents, {""})
    \/ OpsRead
    \/ OpsConsume
    \/ RaceOfficerBegins(MaxRaceEvents)
    \/ RaceOfficerUpdates
    \/ RaceOfficerRecords
    \/ RaceOfficerPublishes
    \/ ReportingRead
    \/ ReportingConsumeOk
    \/ WfRead
    \/ WfConsume

SpecRace == Init /\ [][NextRace]_vars

\* no update-status request is in progress, and the reporting service and
\* the workflow service have consumed and acknowledged every entry
RaceQuiescent ==
    /\ \A s \in RaceSlots : req[s].pc = "idle"
    /\ \A g \in {ReportingGroup, WorkflowGroup} :
          /\ lastDelivered[g] = Len(stream)
          /\ batch[g] = <<>>
          /\ pending[g] = {}

\* C40: once no update-status request is in progress and every published
\* report.status.updated event has been consumed, current_status of the
\* report in my_reports_view and in report_status_projection equals the
\* status of the case row, for every interleaving of the requests.
C40_CitizenStatusEqualsCaseStatus ==
    RaceQuiescent =>
       \A c \in cases :
          /\ \A x \in ReportRows(myReportsView, c.report_id) : x.current_status = c.status
          /\ \A x \in ProjectionRows(projection, c.report_id) : x.current_status = c.status

====
